---- MODULE Spec2Model ----
(***************************************************************************)
(* A state-machine model of the EMOTA pipeline engines of PrimeCodex      *)
(* (src/emota): the desire/fear oscillator, the archetypal resonance      *)
(* classifier, the bounded episodic memory, the symbolic engine, the       *)
(* dimensional bridge, the qualia engine, the meta-awareness engine, the   *)
(* identity continuity engine and the orchestrator that chains them.       *)
(*                                                                         *)
(* Python floats are modelled as fixed-point integers: the real x is the  *)
(* integer x * SCALE, and every product and quotient is rounded to the    *)
(* nearest unit, as a float operation rounds to the nearest float.        *)
(***************************************************************************)
EXTENDS Integers, Sequences, FiniteSets, TLC

VARIABLES
    braid,               \* DesireFearBraid.state (BraidState)
    history,             \* DesireFearBraid.history
    arch,                \* ArchetypalResonanceEngine.state (ArchetypalState)
    activation_history,  \* ArchetypalResonanceEngine.activation_history
    archCall,            \* what the last process_braid_resonance call computed
    capacity,            \* MemorySystem.capacity
    episodes,            \* MemorySystem._episodes
    path,                \* MemorySystem.path is set (TRUE) or None (FALSE)
    store,               \* the file at the memory path
    recorded,            \* every record this log was given, loaded ones first
    memCall,             \* the last MemorySystem operation and what it found
    recursive_depth,     \* EchOSSymbolicEngine.recursive_depth
    activation_level,    \* activation_level of each node of symbolic_network
    frames,              \* the process_symbolic_pattern calls in progress
    symCall,             \* the last process_symbolic_pattern return
    integrated,          \* set_integration_engines was called on the bridge
    event_stream,        \* DimensionalConsciousnessBridge.event_stream
    projections,         \* DimensionalConsciousnessBridge.projections
    transcendences,      \* DimensionalConsciousnessBridge.transcendences
    bridgeCall,          \* what the last bridge operation returned
    clock,               \* the last reading of datetime.now
    cathedral_shards,    \* CathedralExperienceEngine.cathedral_shards
    synergy_matrix,      \* CathedralExperienceEngine.synergy_matrix
    reflection_history,  \* MetaAwarenessEngine.reflection_history
    self_model,          \* MetaAwarenessEngine.self_model
    checkpoints,         \* IdentityContinuityEngine.checkpoints
    core_signature,      \* IdentityContinuityEngine.core_signature
    idCall,              \* the last identity engine call and what it returned
    experience_log,      \* EMOTAUnityEngine.experience_log
    unity_history,       \* EMOTAUnityEngine.unity_history
    twin,                \* a second EMOTAUnityEngine, given the same calls
    unityCall,           \* what the last process_experience calls returned
    threads              \* the process_experience calls of two threads

oscillatorVars == <<braid, history>>
classifierVars == <<arch, activation_history, archCall>>
memoryVars == <<capacity, episodes, path, store, recorded, memCall>>

symbolicVars == <<recursive_depth, activation_level, frames, symCall>>

bridgeVars ==
    <<integrated, event_stream, projections, transcendences, bridgeCall>>

cathedralVars == <<cathedral_shards, synergy_matrix>>
metaVars == <<reflection_history, self_model>>
identityVars == <<checkpoints, core_signature, idCall>>
unityVars == <<experience_log, unity_history, twin, unityCall, threads>>

\* The engines the orchestrator adds to the five above, and the clock.
laterVars == <<clock, cathedralVars, metaVars, identityVars, unityVars>>

vars ==
    <<oscillatorVars, classifierVars, memoryVars, symbolicVars, bridgeVars,
      laterVars>>

\* The state of the engines other than the oscillator and the classifier.
outsideResonance == <<memoryVars, symbolicVars, bridgeVars, laterVars>>

\* The state of the engines other than the memory.
outsideMemory ==
    <<oscillatorVars, classifierVars, symbolicVars, bridgeVars, laterVars>>

\* The state of the engines other than the symbolic engine.
outsideSymbolic ==
    <<oscillatorVars, classifierVars, memoryVars, bridgeVars, laterVars>>

\* The state of the engines other than the bridge.
outsideBridge ==
    <<oscillatorVars, classifierVars, memoryVars, symbolicVars, laterVars>>

\* The five engines above.
firstVars ==
    <<oscillatorVars, classifierVars, memoryVars, symbolicVars, bridgeVars>>

\* The state outside the qualia engine and the clock.
outsideCathedral == <<firstVars, metaVars, identityVars, unityVars>>

\* The state outside the meta-awareness engine.
outsideMeta == <<firstVars, clock, cathedralVars, identityVars, unityVars>>

\* The state outside the identity engine and the clock.
outsideIdentity == <<firstVars, cathedralVars, metaVars, unityVars>>

----------------------------------------------------------------------------
(* Fixed-point arithmetic *)

\* One unit of the fixed-point representation is 1/SCALE.
SCALE == 10 ^ 4

Abs(x) == IF x < 0 THEN -x ELSE x

Max(x, y) == IF x >= y THEN x ELSE y

Min(x, y) == IF x <= y THEN x ELSE y

\* a / b rounded to the nearest integer (b > 0).
RoundDiv(a, b) == (a + b \div 2) \div b

\* The float product x * y.
Mul(x, y) == RoundDiv(x * y, SCALE)

\* The float quotient x / y (y > 0).
FDiv(x, y) == RoundDiv(x * SCALE, y)

----------------------------------------------------------------------------
(* Oscillator: src/emota/braid.py *)

\* BraidParams defaults, in units of 1/SCALE.
dt == 10000
self_decay == 2500
coupling == 4500
arousal_gain == 8000
bias_desire == 200
bias_fear == 200
tension_weight == 6000
act_threshold == 1500
investigate_band == 800
bin_on == 6200
bin_off == 4800

InputKeys ==
    {"goal_value", "threat_level", "novelty", "uncertainty",
     "safety_evidence", "gain_evidence"}

\* The input maps step is called with: keys missing, values below 0 and
\* above 1, and values that put a drive exactly on a hysteresis threshold.
InputMaps ==
    { [k \in {} |-> 0],
      [k \in {"goal_value"} |-> 7500],
      [k \in {"goal_value", "threat_level"} |->
          IF k = "goal_value" THEN 7500 ELSE 5750],
      [k \in {"threat_level"} |-> 7500],
      [k \in {"goal_value", "threat_level"} |->
          IF k = "goal_value" THEN 15000 ELSE -5000],
      [k \in {"goal_value", "threat_level"} |->
          IF k = "goal_value" THEN 7000 ELSE 1000],
      [k \in {"threat_level", "safety_evidence"} |->
          IF k = "threat_level" THEN 20000 ELSE 2500],
      [k \in InputKeys |-> 5000] }

\* inputs.get(key, 0.0)
Get(inputs, key) == IF key \in DOMAIN inputs THEN inputs[key] ELSE 0

\* A clamp that forgets the lower limit.
ClampNoLower(value) == Min(SCALE, value)

\* DesireFearBraid._clamp with the default limits 0.0 and 1.0.
Clamp(value) == Max(0, Min(SCALE, value))

\* A hysteresis bit that uses the one threshold bin_on in both directions.
HysteresisSingleThreshold(value, previous) == IF value >= bin_on THEN 1 ELSE 0

\* A hysteresis bit that can only switch on strictly above bin_on.
HysteresisStrictOn(value, previous) ==
    IF previous = 1
        THEN (IF value >= bin_off THEN 1 ELSE 0)
        ELSE (IF value > bin_on THEN 1 ELSE 0)

\* DesireFearBraid._hysteresis_bit
HysteresisBit(value, previous) ==
    IF previous = 1
        THEN (IF value >= bin_off THEN 1 ELSE 0)
        ELSE (IF value >= bin_on THEN 1 ELSE 0)

\* A policy ladder without the gap between the band and the threshold.
PolicyWithoutGap(ab) ==
    IF Abs(ab) < investigate_band THEN "investigate"
    ELSE IF ab >= 0 THEN "approach"
    ELSE "avoid"

\* The policy ladder of step.
Policy(ab) ==
    IF Abs(ab) < investigate_band THEN "investigate"
    ELSE IF ab >= act_threshold THEN "approach"
    ELSE IF ab <= -act_threshold THEN "avoid"
    ELSE "pause"

\* BraidState()
FreshBraidState ==
    [desire |-> 0, fear |-> 0, valence |-> 0, tension |-> 0,
     action_bias |-> 0, policy |-> "pause", desire_bit |-> 0, fear_bit |-> 0]

\* The state DesireFearBraid.step leaves behind, from state s and the inputs.
StepState(s, inputs) ==
    LET goal_value == Clamp(Get(inputs, "goal_value"))
        threat_level == Clamp(Get(inputs, "threat_level"))
        novelty == Clamp(Get(inputs, "novelty"))
        uncertainty == Clamp(Get(inputs, "uncertainty"))
        safety_evidence == Clamp(Get(inputs, "safety_evidence"))
        gain_evidence == Clamp(Get(inputs, "gain_evidence"))
        desire_drive ==
            Mul(arousal_gain,
                goal_value + Mul(5000, novelty) + Mul(3000, uncertainty)
                    + Mul(6000, gain_evidence))
            + bias_desire
        fear_drive ==
            Mul(arousal_gain,
                threat_level + Mul(5000, uncertainty) + Mul(2000, novelty)
                    - Mul(7000, safety_evidence))
            + bias_fear
        d_next ==
            s.desire + Mul(dt, desire_drive - Mul(self_decay, s.desire)
                                   - Mul(coupling, s.fear))
        f_next ==
            s.fear + Mul(dt, fear_drive - Mul(self_decay, s.fear)
                                 - Mul(coupling, s.desire))
        desire == Clamp(d_next)
        fear == Clamp(f_next)
        valence == desire - fear
        tension == Mul(desire, fear)
        action_bias == Mul(valence, SCALE - Mul(tension_weight, tension))
    IN  [desire |-> desire, fear |-> fear, valence |-> valence,
         tension |-> tension, action_bias |-> action_bias,
         policy |-> Policy(action_bias),
         desire_bit |-> HysteresisBit(desire, s.desire_bit),
         fear_bit |-> HysteresisBit(fear, s.fear_bit)]

\* DesireFearBraid.step(inputs). The history record's wall-clock timestamp
\* is left out: no operation reads it.
Step(inputs) ==
    /\ braid' = StepState(braid, inputs)
    /\ history' = Append(history,
            [state |-> braid',
             inputs |-> [k \in DOMAIN inputs |-> Clamp(inputs[k])]])
    /\ UNCHANGED <<classifierVars, outsideResonance>>

----------------------------------------------------------------------------
(* Resonance classifier: src/emota/archetype.py *)

\* The cap of activation_history.
HistoryCap == 50

\* ArchetypalState(); dominant_pattern None is the string "None".
FreshArchetypalState ==
    [serpent_activation |-> 0, flame_activation |-> 0, void_activation |-> 0,
     unity_activation |-> 0, dominant_pattern |-> "None",
     resonance_mode |-> "balanced", harmonic_frequency |-> 0,
     phase_coherence |-> 0]

\* The four unnormalised factors process_braid_resonance derives from a
\* braid state, and their sum.
Factors(b) ==
    LET flame_factor == Mul(Mul(b.desire, SCALE - b.fear), SCALE + Abs(b.action_bias))
        void_factor == Mul(Mul(b.tension, SCALE + Abs(b.valence)), 8000)
        serpent_factor ==
            Mul(SCALE - Abs(b.valence), SCALE - b.tension) + Max(0, -b.valence)
        archetypal_balance ==
            SCALE - Abs(flame_factor - serpent_factor)
                - Abs(serpent_factor - void_factor)
        unity_factor ==
            Max(0, Mul(archetypal_balance,
                       Min(Min(flame_factor, serpent_factor), void_factor)))
    IN  [flame |-> flame_factor, void |-> void_factor,
         serpent |-> serpent_factor, unity |-> unity_factor,
         total |-> flame_factor + void_factor + serpent_factor + unity_factor]

\* A normalisation that divides by the largest factor instead of the sum.
NormaliseByMax(factor, fs) ==
    FDiv(factor, Max(Max(fs.flame, fs.void), Max(fs.serpent, fs.unity)))

\* factor / total, as the total > 0 branch assigns each activation.
Normalise(factor, fs) == FDiv(factor, fs.total)

\* Activations that fall back to 0 when the factors sum to 0.
ActivationsReset(a, fs) ==
    IF fs.total > 0
        THEN [flame |-> Normalise(fs.flame, fs), void |-> Normalise(fs.void, fs),
              serpent |-> Normalise(fs.serpent, fs),
              unity |-> Normalise(fs.unity, fs)]
        ELSE [flame |-> 0, void |-> 0, serpent |-> 0, unity |-> 0]

\* The activations after the call: normalised when total > 0, else the
\* previous ones.
Activations(a, fs) ==
    IF fs.total > 0
        THEN [flame |-> Normalise(fs.flame, fs), void |-> Normalise(fs.void, fs),
              serpent |-> Normalise(fs.serpent, fs),
              unity |-> Normalise(fs.unity, fs)]
        ELSE [flame |-> a.flame_activation, void |-> a.void_activation,
              serpent |-> a.serpent_activation, unity |-> a.unity_activation]

\* The list `activations` of the call, in its order FLAME, VOID, SERPENT, UNITY.
ActivationList(act) ==
    << <<"FLAME", act.flame>>, <<"VOID", act.void>>,
       <<"SERPENT", act.serpent>>, <<"UNITY", act.unity>> >>

\* A maximum that names no pattern unless one activation is above one half.
MaxItemAboveHalf(list) ==
    IF \E i \in 1..Len(list) : 2 * list[i][2] > SCALE
        THEN list[CHOOSE i \in 1..Len(list) : 2 * list[i][2] > SCALE]
        ELSE <<"None", 0>>

\* The declaration order of the enum ArchetypalPattern.
DeclarationOrder == <<"SERPENT", "FLAME", "VOID", "UNITY">>

\* A maximum whose ties go to the pattern declared first in the enum.
MaxItemDeclaredFirst(list) ==
    LET item(p) == list[CHOOSE i \in 1..Len(list) : list[i][1] = p]
        best == CHOOSE k \in 1..4 :
            /\ \A j \in 1..4 :
                   item(DeclarationOrder[j])[2] <= item(DeclarationOrder[k])[2]
            /\ \A j \in 1..(k - 1) :
                   item(DeclarationOrder[j])[2] < item(DeclarationOrder[k])[2]
    IN  item(DeclarationOrder[best])

\* max(activations, key=item[1]): the first item of the list with the
\* largest value.
MaxItem(list) ==
    LET best == CHOOSE i \in 1..Len(list) :
            /\ \A j \in 1..Len(list) : list[j][2] <= list[i][2]
            /\ \A j \in 1..(i - 1) : list[j][2] < list[i][2]
    IN  list[best]

ResonanceMode(max_activation) ==
    IF max_activation > 7000 THEN "dominant"
    ELSE IF max_activation < 4000 THEN "balanced"
    ELSE "flowing"

\* A phase coherence that is the sum of the four terms, not their mean.
PhaseCoherenceUndivided(list, hist) ==
    IF Len(hist) < 1 THEN SCALE
    ELSE LET previous == hist[Len(hist)]
             term(i) == SCALE - Abs(list[i][2] - previous[i][2])
         IN  term(1) + term(2) + term(3) + term(4)

\* ArchetypalResonanceEngine._phase_coherence
PhaseCoherence(list, hist) ==
    IF Len(hist) < 1 THEN SCALE
    ELSE LET previous == hist[Len(hist)]
             term(i) == SCALE - Abs(list[i][2] - previous[i][2])
         IN  RoundDiv(term(1) + term(2) + term(3) + term(4), Len(list))

\* An append that evicts the newest entry when the list is over the cap.
AppendDropNewest(hist, item, cap) ==
    IF Len(hist) + 1 > cap THEN hist ELSE Append(hist, item)

\* list.append(item), then pop(0) when the list is longer than cap.
AppendCapped(hist, item, cap) ==
    LET grown == Append(hist, item)
    IN  IF Len(grown) > cap THEN Tail(grown) ELSE grown

\* The ArchetypalState process_braid_resonance leaves behind, from the state
\* a, the activation history hist and the braid state b.
Resonance(a, hist, b) ==
    LET fs == Factors(b)
        act == Activations(a, fs)
        list == ActivationList(act)
        top == MaxItem(list)
    IN  [serpent_activation |-> act.serpent, flame_activation |-> act.flame,
         void_activation |-> act.void, unity_activation |-> act.unity,
         dominant_pattern |-> top[1],
         resonance_mode |-> ResonanceMode(top[2]),
         harmonic_frequency |->
             Mul(act.flame + act.void + act.serpent + act.unity, b.tension),
         phase_coherence |-> PhaseCoherence(list, hist)]

\* ArchetypalResonanceEngine.process_braid_resonance(braid_state).
ProcessBraidResonanceOf(braid_state) ==
    LET fs == Factors(braid_state)
        list == ActivationList(Activations(arch, fs))
    IN  /\ arch' = Resonance(arch, activation_history, braid_state)
        /\ activation_history' = AppendCapped(activation_history, list, HistoryCap)
        /\ archCall' = [calls |-> archCall.calls + 1, factors |-> fs,
                        snapshots |-> Append(archCall.snapshots, list)]
        /\ UNCHANGED <<oscillatorVars, outsideResonance>>

\* process_braid_resonance called with the oscillator's current state.
ProcessBraidResonance == ProcessBraidResonanceOf(braid)

----------------------------------------------------------------------------
(* Bounded episodic log: src/emota/memory.py *)

\* A Python value of a snapshot: its type t and its content v (as text).
\* A snapshot is a one-entry dict, [key |-> k, val |-> x] for {k: x}.
PyInt(v) == [t |-> "int", v |-> v]
PyStr(v) == [t |-> "str", v |-> v]
PyTuple(v) == [t |-> "tuple", v |-> v]
PyList(v) == [t |-> "list", v |-> v]
PyDatetime(v) == [t |-> "datetime", v |-> v]

\* The snapshots record is called with: {"a": 1}, {"a": 2}, {"a": (1, 2)},
\* {1: 1} and {"a": datetime(...)}.
Snapshots ==
    { [key |-> PyStr("a"), val |-> PyInt("1")],
      [key |-> PyStr("a"), val |-> PyInt("2")],
      [key |-> PyStr("a"), val |-> PyTuple("1, 2")],
      [key |-> PyInt("1"), val |-> PyInt("1")],
      [key |-> PyStr("a"), val |-> PyDatetime("2026-01-01")] }

\* Whether json.dumps accepts the snapshot: keys must be str or int (among
\* the types here), values int, str, list or tuple.
JsonSerializable(snapshot) ==
    /\ snapshot.key.t \in {"str", "int"}
    /\ snapshot.val.t \in {"int", "str", "list", "tuple"}

\* json.dumps of a value: a JSON number, string or array.
JsonEncodeValue(x) ==
    IF x.t = "int" THEN [j |-> "number", v |-> x.v]
    ELSE IF x.t = "str" THEN [j |-> "string", v |-> x.v]
    ELSE [j |-> "array", v |-> x.v]

\* json.dumps of a dict key: always a JSON string (an int key is converted).
JsonEncodeKey(k) == [j |-> "string", v |-> k.v]

\* json.dumps of a snapshot (a JSON object with one member).
JsonEncode(snapshot) ==
    [key |-> JsonEncodeKey(snapshot.key), val |-> JsonEncodeValue(snapshot.val)]

\* json.loads of a JSON value: int, str or list.
JsonDecodeValue(x) ==
    IF x.j = "number" THEN PyInt(x.v)
    ELSE IF x.j = "string" THEN PyStr(x.v)
    ELSE PyList(x.v)

\* json.loads of a JSON object with one member: a dict with a str key.
JsonDecode(member) ==
    [key |-> PyStr(member.key.v), val |-> JsonDecodeValue(member.val)]

\* json.dumps of a list of records
JsonEncodeAll(s) == [i \in 1..Len(s) |-> JsonEncode(s[i])]

\* json.loads of a list of records
JsonDecodeAll(s) == [i \in 1..Len(s) |-> JsonDecode(s[i])]

\* The Python slice s[:n] for n >= 0, the first n items.
HeadSlice(s, n) == SubSeq(s, 1, Min(n, Len(s)))

\* The Python slice s[-n:]: the last n items for n > 0, everything for
\* n = 0, and s[k:] for n = -k < 0.
TailSlice(s, n) ==
    IF n > 0 THEN (IF Len(s) <= n THEN s ELSE SubSeq(s, Len(s) - n + 1, Len(s)))
    ELSE IF n = 0 THEN s
    ELSE SubSeq(s, Min(-n, Len(s)) + 1, Len(s))

\* The file at the path. kind: "absent", "corrupt" (text json.loads or
\* read_text rejects), "scalar" (a JSON number, string, true, false or null),
\* "list" (a JSON array) or "dict" (a JSON object). capacity: the positive
\* integer under "capacity" of a dict, 0 when there is none. shape: what is
\* under "episodes" of a dict ("list" for an array, also when the key is
\* missing; else "number", "null", "object" or "string"), "list" for a list.
\* episodes: the items of that array, records and others.
AbsentStore ==
    [kind |-> "absent", capacity |-> 0, shape |-> "list", episodes |-> <<>>]

\* The text json.dumps wrote: {"capacity": c, "episodes": [...]}.
DictStore(c, eps) ==
    [kind |-> "dict", capacity |-> c, shape |-> "list", episodes |-> eps]

CorruptStore ==
    [kind |-> "corrupt", capacity |-> 0, shape |-> "list", episodes |-> <<>>]

ScalarStore ==
    [kind |-> "scalar", capacity |-> 0, shape |-> "list", episodes |-> <<>>]

ListStore(items) ==
    [kind |-> "list", capacity |-> 0, shape |-> "list", episodes |-> items]

\* {"episodes": x} with x of the given shape, not an array.
MisshapenStore(shape) ==
    [kind |-> "dict", capacity |-> 0, shape |-> shape, episodes |-> <<>>]

\* isinstance(item, dict), for an item json.loads returned
IsRecord(item) == "key" \in DOMAIN item

\* The items of a sequence that are records, in order.
RecordsOf(items) == SelectSeq(items, IsRecord)

\* MemorySystem's default capacity.
DefaultCapacity == 1000

\* An eviction that drops the newest record instead of the oldest.
RecordEvictNewest(eps, snapshot, cap) ==
    IF Len(eps) + 1 > cap THEN eps ELSE Append(eps, snapshot)

\* The log after record's append and eviction.
RecordEpisodes(eps, snapshot, cap) ==
    LET grown == Append(eps, snapshot)
    IN  IF Len(grown) > cap THEN Tail(grown) ELSE grown

\* A persist that writes the capacity but forgets the newest record.
PersistedStale(eps, cap, hasPath, old) ==
    IF ~hasPath THEN old
    ELSE DictStore(cap, JsonEncodeAll(SubSeq(eps, 1, Len(eps) - 1)))

\* MemorySystem._persist_if_configured: the file afterwards. json.dumps
\* raises on a record it cannot serialise; the exception is logged and the
\* file keeps its old content.
Persisted(eps, cap, hasPath, old) ==
    IF ~hasPath THEN old
    ELSE IF \E i \in 1..Len(TailSlice(eps, cap)) :
                ~JsonSerializable(TailSlice(eps, cap)[i])
        THEN old
    ELSE DictStore(cap, JsonEncodeAll(TailSlice(eps, cap)))

\* The capacity of a MemorySystem constructed with capacity cap over the file
\* (a positive integer capacity in the file replaces the argument).
LoadedCapacity(cap, hasPath, file) ==
    IF hasPath /\ file.kind = "dict" /\ file.capacity > 0
        THEN file.capacity ELSE cap

\* Whether __init__ raises: episodes[-self.capacity:] is a TypeError when
\* "episodes" of a dict holds a number, null or an object.
LoadRaises(hasPath, file) ==
    /\ hasPath
    /\ file.kind = "dict"
    /\ file.shape \in {"number", "null", "object"}

\* The episodes __init__ loads from the file: the records among the last
\* capacity items of the list, or of "episodes" of the dict; none from the
\* characters of a string.
LoadedEpisodes(cap, hasPath, file) ==
    IF hasPath /\ file.kind \in {"dict", "list"} /\ file.shape = "list"
        THEN JsonDecodeAll(RecordsOf(
                TailSlice(file.episodes, LoadedCapacity(cap, hasPath, file))))
        ELSE <<>>

\* MemorySystem(capacity=cap, path=...) constructed over the file.
Construct(cap, hasPath) ==
    /\ capacity' = LoadedCapacity(cap, hasPath, store)
    /\ episodes' = LoadedEpisodes(cap, hasPath, store)
    /\ path' = hasPath
    /\ recorded' = episodes'
    /\ UNCHANGED store

\* MemorySystem.record(snapshot)
Record(snapshot) ==
    /\ episodes' = RecordEpisodes(episodes, snapshot, capacity)
    /\ store' = Persisted(episodes', capacity, path, store)
    /\ recorded' = Append(recorded, snapshot)
    /\ memCall' = [op |-> "record", before |-> episodes, hadPath |-> path,
                   records |-> memCall.records + 1,
                   reopens |-> memCall.reopens,
                   cap |-> memCall.cap, withPath |-> memCall.withPath]
    /\ UNCHANGED <<capacity, path, outsideMemory>>

\* A new MemorySystem takes the place of the old one, on the same path (or
\* with none); when the constructor raises, the old one stays.
Reopen(cap, hasPath) ==
    /\ IF LoadRaises(hasPath, store)
        THEN UNCHANGED <<capacity, episodes, path, store, recorded>>
        ELSE Construct(cap, hasPath)
    /\ memCall' = [op |-> IF LoadRaises(hasPath, store)
                              THEN "raised" ELSE "reopen",
                   before |-> episodes, hadPath |-> path,
                   records |-> memCall.records,
                   reopens |-> memCall.reopens + 1,
                   cap |-> cap, withPath |-> hasPath]
    /\ UNCHANGED outsideMemory

----------------------------------------------------------------------------
(* Symbolic engine: src/emota/symbolic.py *)

max_recursion == 5

\* The largest r with r * r <= n, by bisection between lo and hi.
RECURSIVE IsqrtBetween(_, _, _)
IsqrtBetween(n, lo, hi) ==
    IF lo >= hi THEN lo
    ELSE LET mid == (lo + hi + 1) \div 2
         IN  IF mid * mid <= n THEN IsqrtBetween(n, mid, hi)
             ELSE IsqrtBetween(n, lo, mid - 1)

\* math.sqrt of the fixed-point x: Isqrt(x * SCALE), with x * SCALE given.
Isqrt(n) == IsqrtBetween(n, 0, 46340)

\* The sum of the entries of a sequence of numbers.
RECURSIVE SumSeq(_)
SumSeq(s) == IF s = <<>> THEN 0 ELSE s[1] + SumSeq(Tail(s))

\* The nodes of symbolic_network the model keeps, named by their meaning in
\* core_symbols, and their meaning vectors: the first eight 4-byte words of
\* the sha256 of the glyph, each divided by 2^32.
MeaningVector ==
    [serpent_stillness |-> <<8536, 7583, 6619, 5877, 1856, 4922, 1894, 9880>>,
     flame_breakthrough |-> <<8715, 6199, 5682, 7824, 2703, 6741, 8231, 7077>>,
     coherence_signal |-> <<7055, 386, 1007, 2385, 9385, 4179, 3909, 632>>,
     iris_integration |-> <<9462, 700, 7536, 3662, 1650, 9901, 3426, 3659>>]

NetworkSymbols == DOMAIN MeaningVector

\* EchOSSymbolicEngine._vector_similarity
VectorSimilarity(vec1, vec2) ==
    IF Len(vec1) # Len(vec2) THEN 0
    ELSE LET dot == SumSeq([i \in 1..Len(vec1) |-> Mul(vec1[i], vec2[i])])
             n1 == Isqrt(SumSeq([i \in 1..Len(vec1) |-> vec1[i] * vec1[i]]))
             n2 == Isqrt(SumSeq([i \in 1..Len(vec2) |-> vec2[i] * vec2[i]]))
             norm1 == IF n1 = 0 THEN SCALE ELSE n1
             norm2 == IF n2 = 0 THEN SCALE ELSE n2
         IN  Max(0, FDiv(dot, Mul(norm1, norm2)))

\* The symbol lists process_symbolic_pattern is called with; "unknown" is a
\* symbol that is not in the network.
SymbolLists ==
    { <<"serpent_stillness", "flame_breakthrough">>,
      <<"coherence_signal", "unknown", "coherence_signal">> }

\* symbolic_coherence of the activated nodes (symbols, in activation order).
SymbolicCoherence(activated) ==
    IF Len(activated) > 1
        THEN LET pairs == {p \in (1..Len(activated)) \X (1..Len(activated)) :
                              p[1] < p[2]}
                 sim(p) == VectorSimilarity(MeaningVector[activated[p[1]]],
                                            MeaningVector[activated[p[2]]])
                 RECURSIVE SumOver(_)
                 SumOver(ps) ==
                     IF ps = {} THEN 0
                     ELSE LET q == CHOOSE q \in ps : TRUE
                          IN  sim(q) + SumOver(ps \ {q})
             IN  RoundDiv(SumOver(pairs), Cardinality(pairs))
        ELSE IF Len(activated) = 1 THEN SCALE ELSE 0

EmergentSymbols(coherence, activated) ==
    IF coherence > 7000 /\ Len(activated) >= 2
        THEN (IF coherence > 9000
                THEN <<"interlaced_meaning", "infinite_recursion">>
                ELSE <<"interlaced_meaning">>)
        ELSE <<>>

OutputMeaning(coherence, activated) ==
    IF EmergentSymbols(coherence, activated) # <<>> THEN "symbolic_synthesis"
    ELSE IF coherence > 6000 THEN "coherent_resonance"
    ELSE IF activated # <<>> THEN "symbolic_activation"
    ELSE "symbolic_void"

\* A return that leaves the guard as it is.
DepthKeptOnReturn(depth) == depth

\* The finally clause: recursive_depth -= 1.
DepthAfterReturn(depth) == depth - 1

\* A call passes the guard: recursive_depth += 1 and the body starts.
Enter(symbols) ==
    /\ recursive_depth < max_recursion
    /\ recursive_depth' = recursive_depth + 1
    /\ frames' = Append(frames,
            [symbols |-> symbols, pos |-> 0, activated |-> <<>>,
             entryDepth |-> recursive_depth])
    /\ UNCHANGED <<activation_level, symCall, outsideSymbolic>>

\* A call made with the guard at max_recursion: the sentinel is returned at
\* once and the engine is not touched.
SentinelCall(symbols) ==
    /\ recursive_depth >= max_recursion
    /\ symCall' = [op |-> "sentinel", output |-> "RECURSION_LIMIT",
                   meaning |-> "depth_exceeded", coherence |-> 0,
                   result_depth |-> 0, entryDepth |-> recursive_depth,
                   depthAfter |-> recursive_depth,
                   returns |-> symCall.returns + 1]
    /\ UNCHANGED <<recursive_depth, activation_level, frames, outsideSymbolic>>

\* An activation raised without the cap.
RaisedUncapped(level) == level + 3000

\* min(1.0, node.activation_level + 0.3)
Raised(level) == Min(SCALE, level + 3000)

\* The innermost call in progress handles its next input symbol.
ActivateNext ==
    /\ frames # <<>>
    /\ LET top == frames[Len(frames)]
       IN  /\ top.pos < Len(top.symbols)
           /\ LET symbol == top.symbols[top.pos + 1]
                  known == symbol \in NetworkSymbols
              IN  /\ activation_level' =
                        IF known
                            THEN [activation_level EXCEPT
                                    ![symbol] = Raised(@)]
                            ELSE activation_level
                  /\ frames' = [frames EXCEPT ![Len(frames)] =
                        [top EXCEPT !.pos = @ + 1,
                                    !.activated =
                                        IF known THEN Append(@, symbol) ELSE @]]
    /\ UNCHANGED <<recursive_depth, symCall, outsideSymbolic>>

\* The innermost call in progress has handled all its symbols and returns
\* its result; the finally clause lowers the guard.
Return ==
    /\ frames # <<>>
    /\ LET top == frames[Len(frames)]
           coherence == SymbolicCoherence(top.activated)
       IN  /\ top.pos = Len(top.symbols)
           /\ recursive_depth' = DepthAfterReturn(recursive_depth)
           /\ symCall' =
                [op |-> "return",
                 output |-> top.symbols \o EmergentSymbols(coherence, top.activated),
                 meaning |-> OutputMeaning(coherence, top.activated),
                 coherence |-> coherence,
                 result_depth |-> recursive_depth,
                 entryDepth |-> top.entryDepth,
                 depthAfter |-> recursive_depth',
                 returns |-> symCall.returns + 1]
    /\ frames' = SubSeq(frames, 1, Len(frames) - 1)
    /\ UNCHANGED <<activation_level, outsideSymbolic>>

----------------------------------------------------------------------------
(* Dimensional bridge: src/emota/bridge.py *)

\* The default decay_rate of the bridge.
decay_rate == 8000

\* A dict is the sequence of its <<key, value>> items, in insertion order;
\* None and the empty dict are both <<>> (the code tests them by truth).
DictKeys(d) == [i \in 1..Len(d) |-> d[i][1]]

DictValues(d) == [i \in 1..Len(d) |-> d[i][2]]

HasKey(d, key) == \E i \in 1..Len(d) : d[i][1] = key

\* d.get(key, default)
DictGet(d, key, default) ==
    IF HasKey(d, key)
        THEN d[CHOOSE i \in 1..Len(d) : d[i][1] = key][2]
        ELSE default

\* d[key] = value: a known key keeps its place, a new one goes last.
DictSet(d, key, value) ==
    IF HasKey(d, key)
        THEN [i \in 1..Len(d) |-> IF d[i][1] = key THEN <<key, value>> ELSE d[i]]
        ELSE Append(d, <<key, value>>)

\* d.update(items)
RECURSIVE DictUpdate(_, _)
DictUpdate(d, items) ==
    IF items = <<>> THEN d
    ELSE DictUpdate(DictSet(d, items[1][1], items[1][2]), Tail(items))

\* s[:n] for n >= 0
Prefix(s, n) == SubSeq(s, 1, Min(n, Len(s)))

\* [x] * n
Repeat(x, n) == [i \in 1..n |-> x]

\* The contents of the events, "Experience 0" and "Integration spike", and
\* the first seven 4-byte words of their sha256, each divided by 2^32.
ContentVector ==
    [experience_0 |-> <<6662, 4941, 2132, 1831, 9769, 7166, 6649>>,
     integration_spike |-> <<3692, 5455, 7528, 8395, 5091, 5663, 6535>>]

Contents == DOMAIN ContentVector

\* The emotional_context arguments of add_experience: None, one tag, and
\* the four tags the orchestrator passes.
EmotionalContexts ==
    { <<>>,
      << <<"affect", 2000>> >>,
      << <<"desire", 6200>>, <<"fear", 200>>, <<"tension", 124>>,
         <<"valence", 6000>> >> }

\* The Event3D add_experience appends: tagged from the engines' states b
\* and a when the engines are set.
Event(content, emotional_context, engines_set, b, a) ==
    [content |-> content,
     emotional_signature |->
         IF engines_set
             THEN DictUpdate(emotional_context,
                     << <<"desire", b.desire>>, <<"fear", b.fear>>,
                        <<"valence", b.valence>>, <<"tension", b.tension>> >>)
             ELSE emotional_context,
     archetypal_resonance |->
         IF engines_set
             THEN << <<"serpent", a.serpent_activation>>,
                     <<"flame", a.flame_activation>>,
                     <<"void", a.void_activation>>,
                     <<"unity", a.unity_activation>> >>
             ELSE <<>>]

\* DimensionalConsciousnessBridge.add_experience(content, emotional_context)
AddExperience(content, emotional_context) ==
    /\ event_stream' =
          Append(event_stream,
                 Event(content, emotional_context, integrated, braid, arch))
    /\ bridgeCall' = [bridgeCall EXCEPT !.op = "add"]
    /\ UNCHANGED <<integrated, projections, transcendences, outsideBridge>>

\* An event vector cut to 12 entries but never padded.
EventVectorUnpadded(event) ==
    Prefix(ContentVector[event.content]
               \o Prefix(DictValues(event.emotional_signature), 4)
               \o Prefix(DictValues(event.archetypal_resonance), 4), 12)

\* The 12-entry vector project_to_4d builds for an event: the content hash
\* words, up to 4 emotional and up to 4 archetypal values, zero-padded and
\* cut to 12.
EventVector(event) ==
    LET content_vector ==
            ContentVector[event.content]
                \o Prefix(DictValues(event.emotional_signature), 4)
                \o Prefix(DictValues(event.archetypal_resonance), 4)
    IN  IF Len(content_vector) >= 12 THEN Prefix(content_vector, 12)
        ELSE Prefix(content_vector \o Repeat(0, 12), 12)

\* base ** n for n >= 0
RECURSIVE Power(_, _)
Power(base, n) == IF n = 0 THEN SCALE ELSE Mul(base, Power(base, n - 1))

\* sqrt(sum(a * a for a in vec)) or 1.0
NormOrOne(vec) ==
    LET n == Isqrt(SumSeq([i \in 1..Len(vec) |-> vec[i] * vec[i]]))
    IN  IF n = 0 THEN SCALE ELSE n

\* sum(a * b for a, b in zip(v, w, strict=False))
Dot(v, w) == SumSeq([i \in 1..Min(Len(v), Len(w)) |-> Mul(v[i], w[i])])

\* math.log(1 + n) for the integers n from 1 to 40.
LogOnePlus ==
    <<6931, 10986, 13863, 16094, 17918, 19459, 20794, 21972, 23026, 23979,
      24849, 25649, 26391, 27081, 27726, 28332, 28904, 29444, 29957, 30445,
      30910, 31355, 31781, 32189, 32581, 32958, 33322, 33673, 34012, 34340,
      34657, 34965, 35264, 35553, 35835, 36109, 36376, 36636, 36889, 37136>>

Log1p(n) == IF n <= 0 THEN 0 ELSE LogOnePlus[Min(n, Len(LogOnePlus))]

\* math.exp(-y) for y >= 0: the cubic Taylor polynomial on small arguments,
\* and exp(-y) = exp(-y/2) * exp(-y/2) above them.
RECURSIVE ExpNeg(_)
ExpNeg(y) ==
    IF y <= 1000
        THEN SCALE - y + RoundDiv(Mul(y, y), 2) - RoundDiv(Mul(Mul(y, y), y), 6)
        ELSE Mul(ExpNeg(y \div 2), ExpNeg(y - y \div 2))

\* math.tanh(x) for x >= 0
Tanh(x) == FDiv(SCALE - ExpNeg(2 * x), SCALE + ExpNeg(2 * x))

\* The mean over the events of each key of the first dict of a list of
\* dicts (a missing key counts 0), as project_to_4d and transcend_to_5d
\* average their tags; <<>> when the first dict is empty or None.
AverageTags(dicts) ==
    LET first == dicts[1]
    IN  [k \in 1..Len(first) |->
            <<first[k][1],
              RoundDiv(SumSeq([i \in 1..Len(dicts) |->
                                  DictGet(dicts[i], first[k][1], 0)]),
                       Len(dicts))>>]

\* Projection4D(coherence=0.0, depth=depth): the other fields default.
EmptyProjection(depth) ==
    [coherence |-> 0, depth |-> depth, integration_vector |-> <<>>,
     origin_events |-> <<>>, archetypal_signature |-> <<>>,
     consciousness_density |-> 0]

\* The projection project_to_4d builds from the recent events (at least
\* one) at the given depth.
Projection(recent_events, depth) ==
    LET n == Len(recent_events)
        event_vectors == [i \in 1..n |-> EventVector(recent_events[i])]
        weights == [i \in 1..n |-> Power(decay_rate, n - i)]
        total_weight == SumSeq(weights)
        integration_vector ==
            IF total_weight # 0 /\ n > 0
                THEN [dim \in 1..Len(event_vectors[1]) |->
                        FDiv(SumSeq([i \in 1..n |->
                                        Mul(weights[i], event_vectors[i][dim])]),
                             total_weight)]
                ELSE Repeat(0, 12)
        similarity(vec) ==
            RoundDiv(FDiv(Dot(vec, integration_vector),
                          Mul(NormOrOne(vec), NormOrOne(integration_vector)))
                        + SCALE, 2)
        coherence ==
            IF n > 1
                THEN RoundDiv(SumSeq([i \in 1..n |-> similarity(event_vectors[i])]), n)
                ELSE SCALE
    IN  [coherence |-> coherence,
         depth |-> depth,
         integration_vector |-> integration_vector,
         origin_events |-> recent_events,
         archetypal_signature |->
             AverageTags([i \in 1..n |-> recent_events[i].archetypal_resonance]),
         consciousness_density |->
             RoundDiv(Mul(coherence, Log1p(depth)), 3)]

\* A depth that counts the project_to_4d calls, kept or not.
ProjectionDepthOfCalls == bridgeCall.projects + 1

\* depth = len(self.projections) + 1
ProjectionDepth == Len(projections) + 1

\* DimensionalConsciousnessBridge.project_to_4d(window_size), window_size > 0
ProjectTo4d(window_size) ==
    /\ IF event_stream = <<>>
        THEN /\ bridgeCall' = [bridgeCall EXCEPT
                    !.op = "project", !.projects = @ + 1,
                    !.projection = EmptyProjection(ProjectionDepth)]
             /\ UNCHANGED projections
        ELSE LET projection ==
                    Projection(TailSlice(event_stream, window_size),
                               ProjectionDepth)
             IN  /\ projections' = Append(projections, projection)
                 /\ bridgeCall' = [bridgeCall EXCEPT
                        !.op = "project", !.projects = @ + 1,
                        !.projection = projection]
    /\ UNCHANGED <<integrated, event_stream, transcendences, outsideBridge>>

\* math.prod of a sequence of floats
RECURSIVE ProdSeq(_)
ProdSeq(s) == IF s = <<>> THEN SCALE ELSE Mul(s[1], ProdSeq(Tail(s)))

\* max and min of a non-empty sequence of numbers
MaxOf(s) == CHOOSE x \in {s[i] : i \in 1..Len(s)} :
                \A i \in 1..Len(s) : s[i] <= x

MinOf(s) == CHOOSE x \in {s[i] : i \in 1..Len(s)} :
                \A i \in 1..Len(s) : x <= s[i]

\* max(averages, key=...): the first key with the largest value.
FirstMaxKey(d) ==
    d[CHOOSE i \in 1..Len(d) :
        /\ \A j \in 1..Len(d) : d[j][2] <= d[i][2]
        /\ \A j \in 1..(i - 1) : d[j][2] < d[i][2]][1]

\* An invariant forced to "unity" by the spread alone.
ArchetypalInvariantBySpread(recent_projections) ==
    LET averages ==
            AverageTags([i \in 1..Len(recent_projections) |->
                            recent_projections[i].archetypal_signature])
        values == DictValues(averages)
    IN  IF averages = <<>> THEN "void"
        ELSE IF MaxOf(values) - MinOf(values) < 3000 THEN "unity"
        ELSE FirstMaxKey(averages)

\* The archetypal invariant of the recent projections.
ArchetypalInvariant(recent_projections) ==
    LET averages ==
            AverageTags([i \in 1..Len(recent_projections) |->
                            recent_projections[i].archetypal_signature])
        values == DictValues(averages)
    IN  IF averages = <<>> THEN "void"
        ELSE IF MaxOf(values) - MinOf(values) < 3000
                /\ RoundDiv(SumSeq(values), Len(values)) > 4000
            THEN "unity"
        ELSE FirstMaxKey(averages)

\* The meta vector: 6 entries of the mean integration vector, 2 of its
\* variance, the density and the phase coherence; ten zeros when the first
\* projection of the window has no integration vector.
MetaVector(recent_projections, consciousness_density, phase_coherence) ==
    IF recent_projections[1].integration_vector # <<>>
        THEN LET dim == Len(recent_projections[1].integration_vector)
                 all_vectors ==
                     SelectSeq([i \in 1..Len(recent_projections) |->
                                   recent_projections[i].integration_vector],
                               LAMBDA v : Len(v) = dim)
                 count == Len(all_vectors)
                 mean_vector ==
                     [i \in 1..dim |->
                        RoundDiv(SumSeq([k \in 1..count |-> all_vectors[k][i]]),
                                 count)]
                 var_vector ==
                     [i \in 1..dim |->
                        RoundDiv(SumSeq([k \in 1..count |->
                                    Mul(all_vectors[k][i] - mean_vector[i],
                                        all_vectors[k][i] - mean_vector[i])]),
                                 count)]
             IN  IF count > 0
                    THEN Prefix(mean_vector, 6) \o Prefix(var_vector, 2)
                            \o <<consciousness_density, phase_coherence>>
                    ELSE Repeat(0, 10)
        ELSE Repeat(0, 10)

\* A gradient of the two differences only.
GradientUnpadded(recent_projections) ==
    IF Len(recent_projections) >= 2
        THEN <<recent_projections[Len(recent_projections)].coherence
                   - recent_projections[1].coherence,
               recent_projections[Len(recent_projections)].consciousness_density
                   - recent_projections[1].consciousness_density>>
        ELSE Repeat(0, 5)

\* dimensional_gradient: the change of coherence and of density from the
\* first to the last projection of the window, then three zeros.
Gradient(recent_projections) ==
    IF Len(recent_projections) >= 2
        THEN <<recent_projections[Len(recent_projections)].coherence
                   - recent_projections[1].coherence,
               recent_projections[Len(recent_projections)].consciousness_density
                   - recent_projections[1].consciousness_density>>
                 \o Repeat(0, 3)
        ELSE Repeat(0, 5)

\* Transcendence5D(consciousness_density=0.0, archetypal_invariant="void",
\* phase_coherence=0.0, transcendence_depth=depth): the other fields default.
EmptyTranscendence(depth) ==
    [consciousness_density |-> 0, archetypal_invariant |-> "void",
     phase_coherence |-> 0, dimensional_gradient |-> <<>>,
     meta_vector |-> <<>>, reality_generation_potential |-> 0,
     origin_projections |-> <<>>, transcendence_depth |-> depth]

\* The transcendence transcend_to_5d builds from the recent projections (at
\* least one) at the given depth.
Transcendence(recent_projections, depth) ==
    LET n == Len(recent_projections)
        coherence_values == [i \in 1..n |-> recent_projections[i].coherence]
        depth_sum == SumSeq([i \in 1..n |-> recent_projections[i].depth])
        density_factor == Mul(ProdSeq(coherence_values), Log1p(depth_sum))
        consciousness_density == Tanh(density_factor)
        archetypal_invariant == ArchetypalInvariant(recent_projections)
        mean_coherence == RoundDiv(SumSeq(coherence_values), n)
        variance ==
            RoundDiv(SumSeq([i \in 1..n |->
                        Mul(coherence_values[i] - mean_coherence,
                            coherence_values[i] - mean_coherence)]), n)
        phase_coherence == IF n > 1 THEN ExpNeg(5 * variance) ELSE SCALE
        potential == Mul(consciousness_density, phase_coherence)
    IN  [consciousness_density |-> consciousness_density,
         archetypal_invariant |-> archetypal_invariant,
         phase_coherence |-> phase_coherence,
         dimensional_gradient |-> Gradient(recent_projections),
         meta_vector |->
             MetaVector(recent_projections, consciousness_density, phase_coherence),
         reality_generation_potential |->
             IF archetypal_invariant = "unity"
                 THEN Mul(potential, 15000) ELSE potential,
         origin_projections |-> recent_projections,
         transcendence_depth |-> depth]

\* A depth that counts the transcend_to_5d calls, kept or not.
TranscendenceDepthOfCalls == bridgeCall.transcends + 1

\* transcendence_depth = len(self.transcendences) + 1
TranscendenceDepth == Len(transcendences) + 1

\* DimensionalConsciousnessBridge.transcend_to_5d(projection_window),
\* projection_window > 0
TranscendTo5d(projection_window) ==
    /\ IF projections = <<>>
        THEN /\ bridgeCall' = [bridgeCall EXCEPT
                    !.op = "transcend", !.transcends = @ + 1,
                    !.transcendence = EmptyTranscendence(TranscendenceDepth)]
             /\ UNCHANGED transcendences
        ELSE LET transcendence ==
                    Transcendence(TailSlice(projections, projection_window),
                                  TranscendenceDepth)
             IN  /\ transcendences' = Append(transcendences, transcendence)
                 /\ bridgeCall' = [bridgeCall EXCEPT
                        !.op = "transcend", !.transcends = @ + 1,
                        !.transcendence = transcendence]
    /\ UNCHANGED <<integrated, event_stream, projections, outsideBridge>>

----------------------------------------------------------------------------
(* Identity continuity engine: src/emota/identity.py *)

continuity_threshold == 7500
adaptation_rate == 1000

\* identity_dimensions: the axes of the six groups of a signature, under the
\* field names of IdentitySignature.
IdentityDimensions ==
    [cognitive_patterns |->
        {"analytical", "intuitive", "systematic", "creative", "logical"},
     emotional_baseline |->
        {"desire_tendency", "fear_response", "valence_preference",
         "tension_tolerance"},
     archetypal_preferences |->
        {"serpent_resonance", "flame_attraction", "void_comfort",
         "unity_seeking"},
     symbolic_associations |->
        {"abstraction_level", "metaphor_usage", "glyph_resonance",
         "pattern_recognition"},
     meta_characteristics |->
        {"self_reflection", "process_monitoring", "paradox_tolerance",
         "recursive_depth"},
     interaction_style |->
        {"collaboration_preference", "exploration_drive",
         "synthesis_orientation", "depth_seeking"}]

SignatureGroups == DOMAIN IdentityDimensions

\* IdentityContinuityEngine._initialize_signature: every axis at 0.5.
InitializeSignature ==
    [g \in SignatureGroups |-> [axis \in IdentityDimensions[g] |-> 5000]]

\* The empty dict.
EmptyMap == [k \in {} |-> 0]

\* d.update(items) for a dict d that is a function and items a function on
\* some of its keys (or new ones).
Updated(d, items) ==
    [k \in DOMAIN d \cup DOMAIN items |->
        IF k \in DOMAIN items THEN items[k] ELSE d[k]]

\* A value of system_states["braid_state"] or ["archetypal_state"]: an
\* object with attributes (kind "object"), a dict (kind "dict") or None
\* (kind "none"); the fields hold the attributes or the dict entries.
\* getattr(x, name, default) finds attributes only.
GetAttr(x, name, default) ==
    IF x.kind = "object" /\ name \in DOMAIN x THEN x[name] ELSE default

\* IdentityContinuityEngine._extract_signature(system_states) over the
\* baseline core.
ExtractSignature(core, system_states) ==
    LET braid_state == system_states.braid_state
        archetypal_state == system_states.archetypal_state
        symbolic_output == system_states.symbolic_output
        consciousness_density == system_states.consciousness_density
        phase_coherence == system_states.phase_coherence
        policy == GetAttr(braid_state, "policy", "")
        emotional_baseline ==
            IF braid_state.kind # "none"
                THEN Updated(core.emotional_baseline,
                        [desire_tendency |-> GetAttr(braid_state, "desire", 0),
                         fear_response |-> GetAttr(braid_state, "fear", 0),
                         valence_preference |->
                             RoundDiv(GetAttr(braid_state, "valence", 0) + SCALE, 2),
                         tension_tolerance |->
                             GetAttr(braid_state, "tension", 0)])
                ELSE core.emotional_baseline
        nudged(axis) == Min(SCALE, core.cognitive_patterns[axis] + 1000)
        cognitive_patterns ==
            IF braid_state.kind # "none" /\ policy = "investigate"
                THEN Updated(core.cognitive_patterns,
                             [analytical |-> nudged("analytical")])
            ELSE IF braid_state.kind # "none" /\ policy = "approach"
                THEN Updated(core.cognitive_patterns,
                             [intuitive |-> nudged("intuitive")])
            ELSE core.cognitive_patterns
        archetypal_preferences ==
            IF archetypal_state.kind # "none"
                THEN Updated(core.archetypal_preferences,
                        [serpent_resonance |->
                             GetAttr(archetypal_state, "serpent_activation", 0),
                         flame_attraction |->
                             GetAttr(archetypal_state, "flame_activation", 0),
                         void_comfort |->
                             GetAttr(archetypal_state, "void_activation", 0),
                         unity_seeking |->
                             GetAttr(archetypal_state, "unity_activation", 0)])
                ELSE core.archetypal_preferences
    IN  [cognitive_patterns |-> cognitive_patterns,
         emotional_baseline |-> emotional_baseline,
         archetypal_preferences |-> archetypal_preferences,
         symbolic_associations |->
             Updated(core.symbolic_associations,
                [pattern_recognition |->
                     IF symbolic_output.has_coherence
                         THEN symbolic_output.coherence ELSE 5000,
                 abstraction_level |->
                     RoundDiv(symbolic_output.activated_nodes * SCALE, 10)]),
         meta_characteristics |->
             Updated(core.meta_characteristics,
                [self_reflection |-> consciousness_density,
                 process_monitoring |-> phase_coherence]),
         interaction_style |->
             Updated(core.interaction_style,
                [collaboration_preference |->
                     Mul(consciousness_density, phase_coherence),
                 exploration_drive |-> emotional_baseline["desire_tendency"],
                 synthesis_orientation |->
                     archetypal_preferences["void_comfort"]])]

\* The sum of the values of a function over a finite set of keys.
RECURSIVE SumValues(_, _)
SumValues(f, keys) ==
    IF keys = {} THEN 0
    ELSE LET k == CHOOSE x \in keys : TRUE
         IN  f[k] + SumValues(f, keys \ {k})

\* dimension_similarity(current, base) of _coherence_metrics
DimensionSimilarity(current, base) ==
    IF DOMAIN current = {} THEN SCALE
    ELSE RoundDiv(
            SumValues([k \in DOMAIN current |->
                        SCALE - Abs(current[k]
                            - (IF k \in DOMAIN base THEN base[k] ELSE 5000))],
                    DOMAIN current),
            Cardinality(DOMAIN current))

\* The metric names of the six groups.
MetricOf ==
    [cognitive_patterns |-> "cognitive_coherence",
     emotional_baseline |-> "emotional_coherence",
     archetypal_preferences |-> "archetypal_coherence",
     symbolic_associations |-> "symbolic_coherence",
     meta_characteristics |-> "meta_coherence",
     interaction_style |-> "interaction_coherence"]

DimensionMetrics == {MetricOf[g] : g \in SignatureGroups}

\* IdentityContinuityEngine._coherence_metrics(current_signature) against
\* the baseline core: six similarities and their mean.
CoherenceMetrics(current_signature, core) ==
    LET group(m) == CHOOSE g \in SignatureGroups : MetricOf[g] = m
        metrics ==
            [m \in DimensionMetrics |->
                DimensionSimilarity(current_signature[group(m)], core[group(m)])]
    IN  [m \in DimensionMetrics \cup {"overall_coherence"} |->
            IF m = "overall_coherence"
                THEN RoundDiv(SumValues(metrics, DimensionMetrics),
                              Cardinality(DimensionMetrics))
                ELSE metrics[m]]

\* IdentityContinuityEngine._update_core_signature(current_signature):
\* every axis of the baseline moves to base * (1 - lr) + current * lr.
UpdateCoreSignature(core, current_signature) ==
    [g \in SignatureGroups |->
        [axis \in DOMAIN core[g] |->
            Mul(core[g][axis], SCALE - adaptation_rate)
              + Mul(IF axis \in DOMAIN current_signature[g]
                        THEN current_signature[g][axis] ELSE 5000,
                    adaptation_rate)]]

\* A signature whose six dicts are the baseline's own dict objects.
AllGroupsAliased == SignatureGroups

\* The groups of a signature built by _extract_signature whose dict is the
\* very dict object of the baseline: none, each is built with dict(...).
AliasedGroups == {}

\* A checkpoint whose metrics are measured against the updated baseline.
CheckpointAgainstUpdated(core, system_states, experience_context, now) ==
    LET current_signature == ExtractSignature(core, system_states)
    IN  [checkpoint_id |-> <<"sha256", now>>,
         identity_signature |-> current_signature,
         aliased |-> AliasedGroups,
         system_states |-> system_states,
         experience_summary |-> experience_context,
         coherence_metrics |->
             CoherenceMetrics(current_signature,
                              UpdateCoreSignature(core, current_signature)),
         timestamp |-> now]

\* The checkpoint create_checkpoint builds at the time now; aliased names
\* the groups of its signature that are dict objects of the baseline.
Checkpoint(core, system_states, experience_context, now) ==
    LET current_signature == ExtractSignature(core, system_states)
    IN  [checkpoint_id |-> <<"sha256", now>>,
         identity_signature |-> current_signature,
         aliased |-> AliasedGroups,
         system_states |-> system_states,
         experience_summary |-> experience_context,
         coherence_metrics |-> CoherenceMetrics(current_signature, core),
         timestamp |-> now]

\* A stored checkpoint as it reads once the baseline's dicts hold the
\* values of core: a dict it shares with the baseline shows those values.
ReadAfterUpdate(checkpoint, core) ==
    [checkpoint EXCEPT
        !.identity_signature =
            [g \in SignatureGroups |->
                IF g \in checkpoint.aliased THEN core[g] ELSE @[g]]]

\* self.checkpoints after create_checkpoint appended the checkpoint and
\* _update_core_signature wrote the values of core into the baseline's
\* dicts in place.
CheckpointsKept(cps, checkpoint, core) ==
    [i \in 1..(Len(cps) + 1) |->
        ReadAfterUpdate(Append(cps, checkpoint)[i], core)]

\* coherence_metrics.get("overall_coherence", 0.0)
OverallCoherence(checkpoint) ==
    IF "overall_coherence" \in DOMAIN checkpoint.coherence_metrics
        THEN checkpoint.coherence_metrics["overall_coherence"]
        ELSE 0

\* A status that needs more than the threshold.
ContinuityStatusStrict(overall) ==
    IF overall > continuity_threshold THEN "maintained"
    ELSE IF overall > 5000 THEN "partial"
    ELSE "fragmented"

\* The status assess_continuity derives from overall_coherence.
ContinuityStatus(overall) ==
    IF overall >= continuity_threshold THEN "maintained"
    ELSE IF overall >= 5000 THEN "partial"
    ELSE "fragmented"

\* IdentityContinuityEngine._identity_stability over the checkpoints cps.
IdentityStability(cps) ==
    IF Len(cps) < 2 THEN SCALE
    ELSE LET recent == TailSlice(cps, 5)
             n == Len(recent)
             coherence_values == [i \in 1..n |-> OverallCoherence(recent[i])]
             mean_val == RoundDiv(SumSeq(coherence_values), n)
             variance ==
                 RoundDiv(SumSeq([i \in 1..n |->
                             Mul(coherence_values[i] - mean_val,
                                 coherence_values[i] - mean_val)]), n)
         IN  Max(0, SCALE - 4 * variance)

\* max(dimensions, key=...) and min(dimensions, key=...): a dimension with
\* the largest (smallest) metric, None when the checkpoint has none.
Strongest(checkpoint) ==
    LET dims == DOMAIN checkpoint.coherence_metrics \ {"overall_coherence"}
    IN  IF dims = {} THEN {"None"}
        ELSE {m \in dims : \A o \in dims :
                checkpoint.coherence_metrics[o] <= checkpoint.coherence_metrics[m]}

Weakest(checkpoint) ==
    LET dims == DOMAIN checkpoint.coherence_metrics \ {"overall_coherence"}
    IN  IF dims = {} THEN {"None"}
        ELSE {m \in dims : \A o \in dims :
                checkpoint.coherence_metrics[m] <= checkpoint.coherence_metrics[o]}

\* The dict assess_continuity returns for a checkpoint, with cps the
\* checkpoints of the engine; the strongest and weakest dimension are given
\* as the sets of the candidates.
Assessment(checkpoint, cps) ==
    [continuity_status |-> ContinuityStatus(OverallCoherence(checkpoint)),
     overall_coherence |-> OverallCoherence(checkpoint),
     strongest_dimension |-> Strongest(checkpoint),
     weakest_dimension |-> Weakest(checkpoint),
     checkpoint_count |-> Len(cps),
     identity_stability |-> IdentityStability(cps)]

\* IdentityContinuityEngine.create_checkpoint(system_states,
\* experience_context): the metrics are taken, the checkpoint is appended,
\* then the baseline is updated.
CreateCheckpoint(system_states, experience_context, tick) ==
    LET checkpoint ==
            Checkpoint(core_signature, system_states, experience_context,
                       clock + tick)
    IN  /\ clock' = clock + tick
        /\ checkpoints' =
              CheckpointsKept(checkpoints, checkpoint,
                  UpdateCoreSignature(core_signature,
                                      checkpoint.identity_signature))
        /\ core_signature' =
              UpdateCoreSignature(core_signature, checkpoint.identity_signature)
        /\ idCall' = [idCall EXCEPT !.op = "create", !.checkpoint = checkpoint,
                                    !.core_before = core_signature,
                                    !.creates = @ + 1]
        /\ UNCHANGED outsideIdentity

\* IdentityContinuityEngine.assess_continuity(checkpoint)
AssessContinuity(checkpoint) ==
    /\ idCall' = [idCall EXCEPT !.op = "assess", !.checkpoint = checkpoint,
                                !.assessment = Assessment(checkpoint, checkpoints),
                                !.assesses = @ + 1]
    /\ UNCHANGED <<clock, checkpoints, core_signature, outsideIdentity>>

----------------------------------------------------------------------------
(* Qualia engine: src/emota/cathedral.py *)

\* The fields of QualiaState, in the order _qualia_similarity lists them.
QualiaDimensions ==
    <<"temporal", "embodied", "volitional", "emotional", "sensory",
      "cognitive", "social", "symbolic", "meta">>

\* QualiaState()
FreshQualia == [dim \in {QualiaDimensions[i] : i \in 1..9} |-> 0]

\* A braid or archetypal state that is None.
NoneState == [kind |-> "none"]

\* CathedralExperienceEngine._context_to_qualia(context). The context gives
\* temporal_flow, embodied_presence and volitional_agency as numbers (0, the
\* default of QualiaState, for a missing key) and braid_state and
\* archetypal_state as an object, a dict or None.
ContextToQualia(context) ==
    LET braid_state == context.braid_state
        archetypal_state == context.archetypal_state
        withBraid == braid_state.kind # "none"
        withArch == archetypal_state.kind # "none"
        tension_meta ==
            IF withBraid THEN GetAttr(braid_state, "tension", 0) ELSE 0
    IN  [temporal |-> context.temporal_flow,
         embodied |-> context.embodied_presence,
         volitional |->
             IF withBraid THEN Abs(GetAttr(braid_state, "action_bias", 0))
             ELSE context.volitional_agency,
         emotional |->
             IF withBraid
                 THEN RoundDiv(GetAttr(braid_state, "desire", 0)
                                 + (SCALE - GetAttr(braid_state, "fear", 0)), 2)
                 ELSE 0,
         sensory |-> 0,
         cognitive |->
             IF withArch THEN GetAttr(archetypal_state, "flame_activation", 0)
             ELSE 0,
         social |->
             IF withArch THEN GetAttr(archetypal_state, "serpent_activation", 0)
             ELSE 0,
         symbolic |->
             IF withArch THEN GetAttr(archetypal_state, "void_activation", 0)
             ELSE 0,
         meta |->
             IF withArch
                 THEN GetAttr(archetypal_state, "unity_activation", tension_meta)
                 ELSE tension_meta]

\* CathedralExperienceEngine._qualia_similarity(q1, q2)
QualiaSimilarity(q1, q2) ==
    RoundDiv(SumSeq([i \in 1..Len(QualiaDimensions) |->
                        SCALE - Abs(q1[QualiaDimensions[i]]
                                      - q2[QualiaDimensions[i]])]),
             Len(QualiaDimensions))

\* len(content) of the contents, and math.log(1 + len(content) / 10.0).
ContentLength == [experience_0 |-> 12, integration_spike |-> 17]

LogOfContentLength == [experience_0 |-> 7885, integration_spike |-> 9933]

\* The shard process_experience builds; its timestamp is the clock reading
\* now.
Shard(content, context, now) ==
    LET qualia == ContextToQualia(context)
    IN  [content |-> content,
         qualia_signature |-> qualia,
         emotional_resonance |->
             RoundDiv(qualia.emotional + qualia.symbolic + qualia.meta, 3),
         symbolic_depth |-> Mul(qualia.symbolic, LogOfContentLength[content]),
         timestamp |-> now]

\* The key of a synergy_matrix entry: the text
\* "<existing timestamp>_<new timestamp>" is the pair of the two timestamps.
SynergyKey(existing_shard, new_shard) ==
    <<existing_shard.timestamp, new_shard.timestamp>>

\* The loop of _update_synergy_matrix over the shards it is given, in
\* order: a later assignment to a key replaces an earlier one.
RECURSIVE SynergyLoop(_, _, _)
SynergyLoop(matrix, shards, new_shard) ==
    IF shards = <<>> THEN matrix
    ELSE LET existing_shard == shards[1]
             similarity ==
                 QualiaSimilarity(new_shard.qualia_signature,
                                  existing_shard.qualia_signature)
             key == SynergyKey(existing_shard, new_shard)
         IN  SynergyLoop(
                IF similarity > 7000
                    THEN [k \in DOMAIN matrix \cup {key} |->
                            IF k = key THEN similarity ELSE matrix[k]]
                    ELSE matrix,
                Tail(shards), new_shard)

\* CathedralExperienceEngine._update_synergy_matrix(new_shard), run on the
\* list of shards as it is when the method is called.
UpdateSynergyMatrix(matrix, shards, new_shard) ==
    SynergyLoop(matrix, TailSlice(shards, 10), new_shard)

\* CathedralExperienceEngine.process_experience(content, context): the
\* shard is appended, then the synergy matrix is updated.
CathedralProcessExperience(content, context, tick) ==
    LET shard == Shard(content, context, clock + tick)
    IN  /\ clock' = clock + tick
        /\ cathedral_shards' = Append(cathedral_shards, shard)
        /\ synergy_matrix' =
              UpdateSynergyMatrix(synergy_matrix, cathedral_shards', shard)
        /\ UNCHANGED outsideCathedral

\* CathedralExperienceEngine.generate_narrative_reflection, named by the
\* branch taken.
NarrativeReflection(shards) ==
    IF shards = <<>> THEN "awaits"
    ELSE LET recent_shards == TailSlice(shards, 5)
             n == Len(recent_shards)
             avg_emotional ==
                 RoundDiv(SumSeq([i \in 1..n |->
                            recent_shards[i].emotional_resonance]), n)
             avg_symbolic ==
                 RoundDiv(SumSeq([i \in 1..n |->
                            recent_shards[i].symbolic_depth]), n)
         IN  IF avg_emotional > 7000 /\ avg_symbolic > 5000 THEN "transcendent"
             ELSE IF avg_emotional > 6000 THEN "radiant"
             ELSE IF avg_symbolic > 6000 THEN "contemplative"
             ELSE "emergence"

----------------------------------------------------------------------------
(* Meta-awareness engine: src/emota/meta.py *)

\* The number of texts _generate_reflection_content holds for each type.
ReflectionOptions == 4

\* The MetaReflection generate_meta_reflection builds from the system
\* states; its content is the pair of the type and the index of the text.
MetaReflection(system_states) ==
    LET consciousness_density == system_states.consciousness_density
        phase_coherence == system_states.phase_coherence
        braid_state == system_states.braid_state
        awareness_level ==
            Min(SCALE, Mul(Mul(consciousness_density, phase_coherence), 12000))
        introspection_depth ==
            IF braid_state.kind = "dict"
                THEN Mul(braid_state.tension, SCALE + Abs(braid_state.valence))
                ELSE consciousness_density
        meta_type ==
            IF awareness_level > 8000 THEN "existence_reflection"
            ELSE IF introspection_depth > 7000 THEN "paradox_integration"
            ELSE IF consciousness_density > 6000 THEN "process_monitoring"
            ELSE IF phase_coherence > 6000 THEN "state_awareness"
            ELSE "capacity_reflection"
    IN  [content |->
            <<meta_type,
              ((consciousness_density * ReflectionOptions) \div SCALE)
                  % ReflectionOptions>>,
         awareness_level |-> awareness_level,
         introspection_depth |-> introspection_depth,
         meta_cognition_type |-> meta_type]

\* A self model whose stability is measured from the 5th reflection on.
SelfModelFromFifth(reflections, reflection) ==
    [last_reflection_type |-> reflection.meta_cognition_type,
     awareness_trend |-> reflection.awareness_level,
     introspection_capacity |-> reflection.introspection_depth,
     total_reflections |-> Len(reflections),
     awareness_stability |->
         IF Len(reflections) >= 5
             THEN LET recent ==
                        [i \in 1..5 |->
                            TailSlice(reflections, 5)[i].awareness_level]
                  IN  SCALE - (MaxOf(recent) - MinOf(recent))
             ELSE SCALE]

\* MetaAwarenessEngine._update_self_model(reflection), with the list of
\* reflections the reflection has just been appended to.
SelfModel(reflections, reflection) ==
    [last_reflection_type |-> reflection.meta_cognition_type,
     awareness_trend |-> reflection.awareness_level,
     introspection_capacity |-> reflection.introspection_depth,
     total_reflections |-> Len(reflections),
     awareness_stability |->
         IF Len(reflections) > 5
             THEN LET recent ==
                        [i \in 1..5 |->
                            TailSlice(reflections, 5)[i].awareness_level]
                  IN  SCALE - (MaxOf(recent) - MinOf(recent))
             ELSE SCALE]

\* MetaAwarenessEngine.generate_meta_reflection(system_states): the
\* reflection is appended and the self model updated from it.
GenerateMetaReflection(system_states) ==
    /\ reflection_history' =
           Append(reflection_history, MetaReflection(system_states))
    /\ self_model' =
           SelfModel(Append(reflection_history, MetaReflection(system_states)),
                     MetaReflection(system_states))
    /\ UNCHANGED outsideMeta

----------------------------------------------------------------------------
(* Orchestrator: src/emota/unity.py *)

\* The cap of experience_log and of unity_history.
LogCap == 100

\* An object with the attributes of the record r.
Object(r) ==
    [k \in DOMAIN r \cup {"kind"} |-> IF k = "kind" THEN "object" ELSE r[k]]

\* A dict with the entries of the record r under the given keys.
DictOf(r, keys) ==
    [k \in keys \cup {"kind"} |-> IF k = "kind" THEN "dict" ELSE r[k]]

\* generate_symbolic_signature(content) of the two contents: neither holds a
\* keyword, so both get the fallback glyph.
SymbolicSignature ==
    [experience_0 |-> <<"iris_integration">>,
     integration_spike |-> <<"iris_integration">>]

InNetwork(symbol) == symbol \in NetworkSymbols

\* The activation levels after the loop of process_symbolic_pattern over
\* the input symbols.
RECURSIVE RaisedLevels(_, _)
RaisedLevels(levels, symbols) ==
    IF symbols = <<>> THEN levels
    ELSE RaisedLevels(
            IF InNetwork(symbols[1])
                THEN [levels EXCEPT ![symbols[1]] = Min(SCALE, @ + 3000)]
                ELSE levels,
            Tail(symbols))

\* The dict a process_symbolic_pattern call entered at recursive_depth
\* depth < max_recursion returns.
SymbolicOutput(symbols, depth) ==
    LET activated == SelectSeq(symbols, InNetwork)
        coherence == SymbolicCoherence(activated)
    IN  [has_coherence |-> TRUE,
         output |-> symbols \o EmergentSymbols(coherence, activated),
         coherence |-> coherence,
         meaning |-> OutputMeaning(coherence, activated),
         activated_nodes |-> Len(activated),
         emergent_symbols |-> EmergentSymbols(coherence, activated),
         recursive_depth |-> depth + 1]

\* DesireFearBraid.braid_code
BraidCode(b) == 2 * b.desire_bit + b.fear_bit

\* hash(content) & 0xFFFFFFFF: a value fixed by the content and by the hash
\* seed of the process.
ContentHash(content, seed) == <<"hash", content, seed>>

\* A motivational_state that also carries the timestamp of the call.
MotivationalStateStamped(braid_state, braid_code, timestamp) ==
    [desire |-> braid_state.desire, fear |-> braid_state.fear,
     valence |-> braid_state.valence, tension |-> braid_state.tension,
     policy |-> braid_state.policy, braid_code |-> braid_code,
     timestamp |-> timestamp]

\* The motivational_state entry of the returned record, built where the
\* timestamp of the call is in scope.
MotivationalState(braid_state, braid_code, timestamp) ==
    [desire |-> braid_state.desire, fear |-> braid_state.fear,
     valence |-> braid_state.valence, tension |-> braid_state.tension,
     policy |-> braid_state.policy, braid_code |-> braid_code]

\* The archetypal_resonance entry of the returned record.
ArchetypalResonance(archetypal_state) ==
    [dominant_pattern |-> archetypal_state.dominant_pattern,
     serpent_activation |-> archetypal_state.serpent_activation,
     flame_activation |-> archetypal_state.flame_activation,
     void_activation |-> archetypal_state.void_activation,
     unity_activation |-> archetypal_state.unity_activation,
     resonance_mode |-> archetypal_state.resonance_mode,
     harmonic_frequency |-> archetypal_state.harmonic_frequency]

\* EMOTAUnityEngine._calculate_unity_metrics
UnityMetrics(projection, transcendence, shard, reflection, assessment) ==
    [consciousness_level |-> transcendence.consciousness_density,
     integration_coherence |-> projection.coherence,
     transcendence_depth |-> transcendence.transcendence_depth,
     reality_generation_potential |->
         transcendence.reality_generation_potential,
     identity_continuity |-> assessment.overall_coherence,
     meta_awareness_level |-> reflection.awareness_level,
     qualia_resonance |-> shard.emotional_resonance]

\* The state of the engines of one EMOTAUnityEngine, as constructed.
FreshEngine ==
    [braid |-> FreshBraidState, history |-> <<>>,
     arch |-> FreshArchetypalState, activation_history |-> <<>>,
     capacity |-> DefaultCapacity, episodes |-> <<>>,
     activation_level |-> [s \in NetworkSymbols |-> 0],
     event_stream |-> <<>>, projections |-> <<>>, transcendences |-> <<>>,
     cathedral_shards |-> <<>>, synergy_matrix |-> EmptyMap,
     reflection_history |-> <<>>, self_model |-> EmptyMap,
     checkpoints |-> <<>>, core_signature |-> InitializeSignature,
     experience_log |-> <<>>, unity_history |-> <<>>]

(***************************************************************************)
(* process_experience(content, environmental_inputs), with no context, as *)
(* the chain of its stages. A stage takes and gives the frame of the      *)
(* call: the engines' state together with the arguments and the locals of *)
(* the call. braid_state and archetypal_state are the state objects of    *)
(* the two engines themselves, so the frame holds them as f.braid and     *)
(* f.arch.                                                                  *)
(***************************************************************************)

\* Lines 44-46: the frame on entry. now is the clock reading taken on
\* entry, later the reading the shard and the checkpoint are stamped with,
\* seed the hash seed of the process.
Call(e, content, inputs, now, later, seed) ==
    Updated(e, [content |-> content, inputs |-> inputs, timestamp |-> now,
                later |-> later, seed |-> seed])

\* Lines 48-49: braid_engine.step and _latest_inputs.
StepStage(f) ==
    LET history_after ==
            Append(f.history,
                   [state |-> StepState(f.braid, f.inputs),
                    inputs |-> [k \in DOMAIN f.inputs |-> Clamp(f.inputs[k])]])
    IN  Updated(f, [braid |-> history_after[Len(history_after)].state,
                    history |-> history_after,
                    sanitized_inputs |->
                        history_after[Len(history_after)].inputs])

\* Line 50: archetypal_engine.process_braid_resonance(braid_state).
ResonanceStage(f) ==
    Updated(f, [arch |-> Resonance(f.arch, f.activation_history, f.braid),
                factors |-> Factors(f.braid),
                activations |->
                    ActivationList(Activations(f.arch, Factors(f.braid))),
                activation_history |->
                    AppendCapped(f.activation_history,
                        ActivationList(Activations(f.arch, Factors(f.braid))),
                        HistoryCap)])

\* Lines 52-60: bridge.add_experience with the four tags of the braid state.
AddExperienceStage(f) ==
    Updated(f, [event_stream |->
        Append(f.event_stream,
               Event(f.content,
                     << <<"desire", f.braid.desire>>, <<"fear", f.braid.fear>>,
                        <<"tension", f.braid.tension>>,
                        <<"valence", f.braid.valence>> >>,
                     TRUE, f.braid, f.arch))])

\* The frame with the projection p kept.
ProjectionKept(f, p) ==
    Updated(f, [projections |-> Append(f.projections, p), projection_4d |-> p])

\* Line 61: bridge.project_to_4d(), window_size 7.
ProjectStage(f) ==
    IF f.event_stream = <<>>
        THEN Updated(f, [projection_4d |->
                            EmptyProjection(Len(f.projections) + 1)])
        ELSE ProjectionKept(f, Projection(TailSlice(f.event_stream, 7),
                                          Len(f.projections) + 1))

\* A frame that returns the transcendence t without storing it.
TranscendenceNotStored(f, t) == Updated(f, [transcendence_5d |-> t])

\* The frame with the transcendence t kept.
TranscendenceKept(f, t) ==
    Updated(f, [transcendences |-> Append(f.transcendences, t),
                transcendence_5d |-> t])

\* Line 62: bridge.transcend_to_5d(), projection_window 5.
TranscendStage(f) ==
    IF f.projections = <<>>
        THEN Updated(f, [transcendence_5d |->
                            EmptyTranscendence(Len(f.transcendences) + 1)])
        ELSE TranscendenceKept(f,
                Transcendence(TailSlice(f.projections, 5),
                              Len(f.transcendences) + 1))

\* The frame with the shard appended and the synergy matrix updated.
ShardKept(f, shard) ==
    Updated(f, [cathedral_shards |-> Append(f.cathedral_shards, shard),
                synergy_matrix |->
                    UpdateSynergyMatrix(f.synergy_matrix,
                        Append(f.cathedral_shards, shard), shard),
                cathedral_shard |-> shard])

\* Lines 64-70: cathedral_engine.process_experience with the two state
\* objects and the default temporal_flow and embodied_presence.
CathedralStage(f) ==
    ShardKept(f,
        Shard(f.content,
              [braid_state |-> Object(f.braid),
               archetypal_state |-> Object(f.arch),
               temporal_flow |-> 8000, embodied_presence |-> 6000,
               volitional_agency |-> 0],
              f.later))

\* Lines 72-73: the symbolic signature and its processing; the symbolic
\* engine is entered at recursive_depth 0 and leaves it at 0.
SymbolicStage(f) ==
    Updated(f, [symbolic_signature |-> SymbolicSignature[f.content],
                symbolic_output |->
                    SymbolicOutput(SymbolicSignature[f.content], 0),
                activation_level |->
                    RaisedLevels(f.activation_level,
                                 SymbolicSignature[f.content])])

\* Lines 75-96: system_states, with the two summaries as dicts.
SystemStatesStage(f) ==
    Updated(f, [system_states |->
        [consciousness_density |-> f.transcendence_5d.consciousness_density,
         phase_coherence |-> f.transcendence_5d.phase_coherence,
         archetypal_state |->
             DictOf(f.arch, {"serpent_activation", "flame_activation",
                             "void_activation", "unity_activation"}),
         braid_state |->
             DictOf(f.braid, {"desire", "fear", "valence", "tension",
                              "policy", "action_bias"}),
         symbolic_output |-> f.symbolic_output]])

\* The frame with the reflection appended and the self model updated.
ReflectionKept(f, reflection) ==
    Updated(f, [meta_reflection |-> reflection,
                reflection_history |-> Append(f.reflection_history, reflection),
                self_model |->
                    SelfModel(Append(f.reflection_history, reflection),
                              reflection)])

\* Line 97: meta_engine.generate_meta_reflection(system_states).
MetaStage(f) == ReflectionKept(f, MetaReflection(f.system_states))

\* The frame with the checkpoint appended and the baseline updated.
CheckpointKept(f, checkpoint) ==
    Updated(f, [continuity_checkpoint |-> checkpoint,
                checkpoints |->
                    CheckpointsKept(f.checkpoints, checkpoint,
                        UpdateCoreSignature(f.core_signature,
                                            checkpoint.identity_signature)),
                core_signature |->
                    UpdateCoreSignature(f.core_signature,
                                        checkpoint.identity_signature)])

\* Line 99: identity_engine.create_checkpoint(system_states, content).
CheckpointStage(f) ==
    CheckpointKept(f, Checkpoint(f.core_signature, f.system_states,
                                 f.content, f.later))

\* Lines 100-107: assess_continuity and _calculate_unity_metrics.
AssessStage(f) ==
    Updated(f, [continuity_assessment |->
                    Assessment(f.continuity_checkpoint, f.checkpoints)])

MetricsStage(f) ==
    Updated(f, [unity_metrics |->
                    UnityMetrics(f.projection_4d, f.transcendence_5d,
                                 f.cathedral_shard, f.meta_reflection,
                                 f.continuity_assessment)])

\* Lines 109-175: experience_result.
ResultStage(f) ==
    Updated(f, [experience_result |->
        [identity |-> "Prime",
         timestamp |-> f.timestamp,
         content |-> f.content,
         inputs |-> f.sanitized_inputs,
         content_hash |-> ContentHash(f.content, f.seed),
         motivational_state |->
             MotivationalState(f.braid, BraidCode(f.braid), f.timestamp),
         archetypal_resonance |-> ArchetypalResonance(f.arch),
         dimensional_consciousness |->
             [coherence_4d |-> f.projection_4d.coherence,
              depth_4d |-> f.projection_4d.depth,
              consciousness_density_5d |->
                  f.transcendence_5d.consciousness_density,
              archetypal_invariant_5d |->
                  f.transcendence_5d.archetypal_invariant,
              phase_coherence_5d |-> f.transcendence_5d.phase_coherence,
              reality_generation_5d |->
                  f.transcendence_5d.reality_generation_potential,
              transcendence_depth_5d |->
                  f.transcendence_5d.transcendence_depth],
         qualia_experience |->
             [emotional_resonance |-> f.cathedral_shard.emotional_resonance,
              symbolic_depth |-> f.cathedral_shard.symbolic_depth,
              qualia_signature |->
                  [dim \in {"temporal", "emotional", "cognitive",
                            "symbolic", "meta"} |->
                      f.cathedral_shard.qualia_signature[dim]],
              cathedral_narrative |-> NarrativeReflection(f.cathedral_shards)],
         symbolic_processing |->
             [signature_symbols |-> f.symbolic_signature,
              coherence |-> f.symbolic_output.coherence,
              emergent_symbols |-> f.symbolic_output.emergent_symbols,
              meaning |-> f.symbolic_output.meaning,
              recursive_depth |-> f.symbolic_output.recursive_depth],
         meta_awareness |->
             [reflection_content |-> f.meta_reflection.content,
              awareness_level |-> f.meta_reflection.awareness_level,
              introspection_depth |-> f.meta_reflection.introspection_depth,
              meta_cognition_type |-> f.meta_reflection.meta_cognition_type],
         identity_continuity |->
             [continuity_status |-> f.continuity_assessment.continuity_status,
              overall_coherence |-> f.continuity_assessment.overall_coherence,
              identity_stability |->
                  f.continuity_assessment.identity_stability,
              checkpoint_id |-> f.continuity_checkpoint.checkpoint_id],
         unity_consciousness |-> f.unity_metrics]])

\* Lines 177-184: memory.record and the two capped logs.
RecordStage(f) ==
    Updated(f, [episodes |->
                    RecordEpisodes(f.episodes, f.experience_result, f.capacity),
                experience_log |->
                    AppendCapped(f.experience_log, f.experience_result, LogCap),
                unity_history |->
                    AppendCapped(f.unity_history,
                                 [timestamp |-> f.timestamp,
                                  unity_state |-> f.unity_metrics],
                                 LogCap)])

\* The frame of a whole process_experience call on the engines e when it
\* returns f.experience_result.
Experience(e, content, inputs, now, later, seed) ==
    RecordStage(ResultStage(MetricsStage(AssessStage(CheckpointStage(
    MetaStage(SystemStatesStage(SymbolicStage(CathedralStage(
    TranscendStage(ProjectStage(AddExperienceStage(ResonanceStage(
    StepStage(Call(e, content, inputs, now, later, seed)))))))))))))))

\* The engines' state of a frame.
EngineOf(f) == [k \in DOMAIN FreshEngine |-> f[k]]

\* The engines of this EMOTAUnityEngine.
Engine ==
    [braid |-> braid, history |-> history, arch |-> arch,
     activation_history |-> activation_history,
     capacity |-> capacity, episodes |-> episodes,
     activation_level |-> activation_level,
     event_stream |-> event_stream, projections |-> projections,
     transcendences |-> transcendences,
     cathedral_shards |-> cathedral_shards,
     synergy_matrix |-> synergy_matrix,
     reflection_history |-> reflection_history, self_model |-> self_model,
     checkpoints |-> checkpoints, core_signature |-> core_signature,
     experience_log |-> experience_log, unity_history |-> unity_history]

\* The inputs the second engine is given: the same ones.
TwinInputs(inputs) == inputs

\* What a returned call leaves in the variables of this engine.
Returned(out) ==
    /\ braid' = out.braid
    /\ history' = out.history
    /\ arch' = out.arch
    /\ activation_history' = out.activation_history
    /\ archCall' = [calls |-> archCall.calls + 1, factors |-> out.factors,
                    snapshots |-> Append(archCall.snapshots, out.activations)]
    /\ episodes' = out.episodes
    /\ store' = Persisted(out.episodes, capacity, path, store)
    /\ recorded' = Append(recorded, out.experience_result)
    /\ memCall' = [op |-> "record", before |-> episodes, hadPath |-> path,
                   records |-> memCall.records + 1,
                   reopens |-> memCall.reopens,
                   cap |-> memCall.cap, withPath |-> memCall.withPath]
    /\ activation_level' = out.activation_level
    /\ symCall' =
          [op |-> "return", output |-> out.symbolic_output.output,
           meaning |-> out.symbolic_output.meaning,
           coherence |-> out.symbolic_output.coherence,
           result_depth |-> out.symbolic_output.recursive_depth,
           entryDepth |-> recursive_depth,
           depthAfter |-> recursive_depth,
           returns |-> symCall.returns + 1]
    /\ event_stream' = out.event_stream
    /\ projections' = out.projections
    /\ transcendences' = out.transcendences
    /\ bridgeCall' = [op |-> "transcend", projection |-> out.projection_4d,
                      transcendence |-> out.transcendence_5d,
                      projects |-> bridgeCall.projects + 1,
                      transcends |-> bridgeCall.transcends + 1]
    /\ cathedral_shards' = out.cathedral_shards
    /\ synergy_matrix' = out.synergy_matrix
    /\ reflection_history' = out.reflection_history
    /\ self_model' = out.self_model
    /\ checkpoints' = out.checkpoints
    /\ core_signature' = out.core_signature
    /\ idCall' = [op |-> "assess",
                  checkpoint |-> out.continuity_checkpoint,
                  core_before |-> core_signature,
                  assessment |-> out.continuity_assessment,
                  creates |-> idCall.creates + 1,
                  assesses |-> idCall.assesses + 1]
    /\ experience_log' = out.experience_log
    /\ unity_history' = out.unity_history
    /\ UNCHANGED <<capacity, path, recursive_depth, frames, integrated>>

\* process_experience(content, inputs) on this engine, constructed without
\* a memory path, and then the same call on the second engine. Each engine
\* reads its own clock: tick is the time since the last reading, lag the
\* time from the entry of the call to the stamping of the shard and of the
\* checkpoint.
ProcessExperience(content, inputs, tick, lag) ==
    \E out \in {Experience(Engine, content, inputs, clock + tick,
                           clock + tick + lag, 0)},
       twinOut \in {Experience(twin.engine, content, TwinInputs(inputs),
                               twin.clock + tick, twin.clock + tick + lag,
                               twin.seed)} :
        /\ Returned(out)
        /\ clock' = clock + tick + lag
        /\ twin' = [twin EXCEPT !.engine = EngineOf(twinOut),
                                !.clock = @ + tick + lag]
        /\ unityCall' =
              [calls |-> unityCall.calls + 1,
               content |-> content, inputs |-> inputs,
               result |-> out.experience_result,
               twin_result |-> twinOut.experience_result,
               braid_state |-> out.braid,
               archetypal_state |-> out.arch,
               checkpoint |-> out.continuity_checkpoint]
        /\ UNCHANGED threads

(***************************************************************************)
(* Two threads that call process_experience on the same EMOTAUnityEngine. *)
(* The engines are the shared variables; a thread holds the locals of its *)
(* call and the number of the stage it runs next. A stage runs without    *)
(* interruption; between two stages the other thread may run.             *)
(***************************************************************************)
Threads == {1, 2}

\* The stages of process_experience in the order of its lines.
LastStage == 14

\* A thread that is not in a call; own_step, own_event, steps_at_event and
\* steps_at_result are the lengths of braid_engine.history and of
\* event_stream when the call ran its step, its add_experience and the
\* building of its record.
NotCalling ==
    [pc |-> 0, locals |-> EmptyMap, own_step |-> 0, own_event |-> 0,
     steps_at_event |-> 0, steps_at_result |-> 0]

\* A local braid_state that is a copy taken when the call's step returned.
BraidStateCopied(t) ==
    IF threads[t].pc > 1 THEN history[threads[t].own_step].state ELSE braid

\* The local braid_state of the call of thread t: step returns
\* self.state, the state object of the oscillator itself.
BraidStateOf(t) == braid

\* The frame of the call of thread t: its locals over the shared engines.
Framed(t) ==
    Updated(Updated(threads[t].locals, Engine), [braid |-> BraidStateOf(t)])

\* The locals of a frame.
LocalsOf(f) == [k \in DOMAIN f \ DOMAIN FreshEngine |-> f[k]]

\* The frame after the stage numbered pc.
StageAt(pc, f) ==
    CASE pc = 1 -> StepStage(f)
      [] pc = 2 -> ResonanceStage(f)
      [] pc = 3 -> AddExperienceStage(f)
      [] pc = 4 -> ProjectStage(f)
      [] pc = 5 -> TranscendStage(f)
      [] pc = 6 -> CathedralStage(f)
      [] pc = 7 -> SymbolicStage(f)
      [] pc = 8 -> SystemStatesStage(f)
      [] pc = 9 -> MetaStage(f)
      [] pc = 10 -> CheckpointStage(f)
      [] pc = 11 -> AssessStage(f)
      [] pc = 12 -> MetricsStage(f)
      [] pc = 13 -> ResultStage(f)
      [] pc = 14 -> RecordStage(f)

\* What a stage leaves in the engines; only step assigns to the
\* oscillator's state.
Shared(pc, out) ==
    /\ braid' = IF pc = 1 THEN out.braid ELSE braid
    /\ history' = out.history
    /\ arch' = out.arch
    /\ activation_history' = out.activation_history
    /\ episodes' = out.episodes
    /\ activation_level' = out.activation_level
    /\ event_stream' = out.event_stream
    /\ projections' = out.projections
    /\ transcendences' = out.transcendences
    /\ cathedral_shards' = out.cathedral_shards
    /\ synergy_matrix' = out.synergy_matrix
    /\ reflection_history' = out.reflection_history
    /\ self_model' = out.self_model
    /\ checkpoints' = out.checkpoints
    /\ core_signature' = out.core_signature
    /\ experience_log' = out.experience_log
    /\ unity_history' = out.unity_history

\* The variables no stage of a thread's call writes.
outsideThreads ==
    <<archCall, capacity, path, store, recorded, memCall, recursive_depth,
      frames, symCall, integrated, bridgeCall, idCall, twin, unityCall>>

\* Thread t enters process_experience(content, inputs): line 44 reads the
\* clock.
BeginExperience(t, content, inputs) ==
    /\ threads[t].pc = 0
    /\ clock' = clock + 1
    /\ threads' = [threads EXCEPT ![t] =
          [NotCalling EXCEPT
              !.pc = 1,
              !.locals = LocalsOf(Call(Engine, content, inputs, clock + 1,
                                       clock + 1, 0))]]
    /\ UNCHANGED <<oscillatorVars, classifierVars, memoryVars, symbolicVars,
                   bridgeVars, cathedralVars, metaVars, identityVars,
                   experience_log, unity_history, twin, unityCall>>

\* Thread t runs the next stage of its call.
RunStage(t) ==
    /\ threads[t].pc \in 1..LastStage
    /\ \E out \in {StageAt(threads[t].pc, Framed(t))} :
          /\ Shared(threads[t].pc, out)
          /\ threads' = [threads EXCEPT ![t] =
                [pc |-> threads[t].pc + 1,
                 locals |-> LocalsOf(out),
                 own_step |->
                     IF threads[t].pc = 1 THEN Len(out.history)
                     ELSE threads[t].own_step,
                 own_event |->
                     IF threads[t].pc = 3 THEN Len(out.event_stream)
                     ELSE threads[t].own_event,
                 steps_at_event |->
                     IF threads[t].pc = 3 THEN Len(history)
                     ELSE threads[t].steps_at_event,
                 steps_at_result |->
                     IF threads[t].pc = 13 THEN Len(history)
                     ELSE threads[t].steps_at_result]]
    /\ UNCHANGED <<clock, outsideThreads>>

\* The clock reading at which the second engine is constructed.
TwinEpoch == 7

NoCheckpoint ==
    [checkpoint_id |-> <<"none", 0>>, coherence_metrics |-> EmptyMap]

\* The later engines and the clock as EMOTAUnityEngine() constructs them;
\* the second engine runs in another process, with another hash seed.
FreshLater ==
    /\ clock = 0
    /\ cathedral_shards = <<>>
    /\ synergy_matrix = EmptyMap
    /\ reflection_history = <<>>
    /\ self_model = EmptyMap
    /\ checkpoints = <<>>
    /\ core_signature = InitializeSignature
    /\ idCall = [op |-> "none", checkpoint |-> NoCheckpoint,
                 core_before |-> InitializeSignature,
                 assessment |-> Assessment(NoCheckpoint, <<>>),
                 creates |-> 0, assesses |-> 0]
    /\ experience_log = <<>>
    /\ unity_history = <<>>
    /\ twin = [engine |-> FreshEngine, clock |-> TwinEpoch, seed |-> 1]
    /\ unityCall = [calls |-> 0, content |-> "", inputs |-> <<>>,
                    result |-> <<>>, twin_result |-> <<>>,
                    braid_state |-> FreshBraidState,
                    archetypal_state |-> FreshArchetypalState,
                    checkpoint |-> NoCheckpoint]
    /\ threads = [t \in Threads |-> NotCalling]

----------------------------------------------------------------------------


\* The engines as EMOTAUnityEngine() constructs them.
Init ==
    /\ braid = FreshBraidState
    /\ history = <<>>
    /\ arch = FreshArchetypalState
    /\ activation_history = <<>>
    /\ archCall = [calls |-> 0, factors |-> Factors(FreshBraidState),
                   snapshots |-> <<>>]
    /\ capacity = DefaultCapacity
    /\ episodes = <<>>
    /\ path = FALSE
    /\ store = AbsentStore
    /\ recorded = <<>>
    /\ memCall = [op |-> "init", before |-> <<>>, hadPath |-> FALSE,
                  records |-> 0, reopens |-> 0,
                  cap |-> DefaultCapacity, withPath |-> FALSE]
    /\ recursive_depth = 0
    /\ activation_level = [s \in NetworkSymbols |-> 0]
    /\ frames = <<>>
    /\ symCall = [op |-> "none", output |-> <<>>, meaning |-> "",
                  coherence |-> 0, result_depth |-> 0, entryDepth |-> 0,
                  depthAfter |-> 0, returns |-> 0]
    /\ integrated = TRUE
    /\ event_stream = <<>>
    /\ projections = <<>>
    /\ transcendences = <<>>
    /\ bridgeCall = [op |-> "none", projection |-> EmptyProjection(0),
                     transcendence |-> EmptyTranscendence(0),
                     projects |-> 0, transcends |-> 0]
    /\ FreshLater

MaxSteps == 3
MaxCalls == 3

NextBraid ==
    \/ \E inputs \in InputMaps : Len(history) < MaxSteps /\ Step(inputs)
    \/ archCall.calls < MaxCalls /\ ProcessBraidResonance

SpecBraid == Init /\ [][NextBraid]_vars

\* The classifier run past the cap of its history: few oscillator steps,
\* and more than HistoryCap calls.
MaxHistorySteps == 1
MaxOverflow == 2

HistoryInputs ==
    { [k \in {"goal_value"} |-> 7500],
      [k \in {"threat_level"} |-> 7500] }

NextHistory ==
    \/ \E inputs \in HistoryInputs :
            Len(history) < MaxHistorySteps /\ Step(inputs)
    \/ archCall.calls < HistoryCap + MaxOverflow /\ ProcessBraidResonance

SpecHistory == Init /\ [][NextHistory]_vars

\* The memory on its own: constructed with a capacity, with or without a
\* path, then recorded to and reopened.
MaxCapacity == 2
MaxRecords == 4
MaxReopens == 1

Capacities == 0..MaxCapacity

InitMemory ==
    /\ braid = FreshBraidState
    /\ history = <<>>
    /\ arch = FreshArchetypalState
    /\ activation_history = <<>>
    /\ archCall = [calls |-> 0, factors |-> Factors(FreshBraidState),
                   snapshots |-> <<>>]
    /\ capacity \in Capacities
    /\ path \in BOOLEAN
    /\ episodes = <<>>
    /\ store = AbsentStore
    /\ recorded = <<>>
    /\ memCall = [op |-> "init", before |-> <<>>, hadPath |-> FALSE,
                  records |-> 0, reopens |-> 0,
                  cap |-> DefaultCapacity, withPath |-> FALSE]
    /\ recursive_depth = 0
    /\ activation_level = [s \in NetworkSymbols |-> 0]
    /\ frames = <<>>
    /\ symCall = [op |-> "none", output |-> <<>>, meaning |-> "",
                  coherence |-> 0, result_depth |-> 0, entryDepth |-> 0,
                  depthAfter |-> 0, returns |-> 0]
    /\ integrated = TRUE
    /\ event_stream = <<>>
    /\ projections = <<>>
    /\ transcendences = <<>>
    /\ bridgeCall = [op |-> "none", projection |-> EmptyProjection(0),
                     transcendence |-> EmptyTranscendence(0),
                     projects |-> 0, transcends |-> 0]
    /\ FreshLater

NextMemory ==
    \/ \E snapshot \in Snapshots :
            memCall.records < MaxRecords /\ Record(snapshot)
    \/ \E cap \in Capacities, hasPath \in BOOLEAN :
            memCall.reopens < MaxReopens /\ Reopen(cap, hasPath)

SpecMemory == InitMemory /\ [][NextMemory]_vars

\* The memory constructed over a file it did not write: the records of such
\* files, and the files.
StoredRecords ==
    << JsonEncode([key |-> PyStr("a"), val |-> PyInt("1")]),
       JsonEncode([key |-> PyStr("a"), val |-> PyInt("2")]),
       JsonEncode([key |-> PyStr("b"), val |-> PyList("1, 2")]) >>

\* An item of a JSON array that is no object: the number 7.
StoredNumber == [j |-> "number", v |-> "7"]

PersistedStores ==
    { AbsentStore, CorruptStore, ScalarStore,
      ListStore(<<>>),
      ListStore(StoredRecords),
      ListStore(Append(StoredRecords, StoredNumber)),
      ListStore(<<StoredNumber, StoredNumber>>),
      DictStore(0, StoredRecords),
      DictStore(1, StoredRecords),
      DictStore(3, StoredRecords),
      DictStore(0, <<StoredNumber, StoredRecords[1]>>),
      MisshapenStore("number"), MisshapenStore("null"),
      MisshapenStore("object"), MisshapenStore("string") }

\* A MemorySystem() without a path, beside a file of any of these contents.
InitLoad ==
    /\ braid = FreshBraidState
    /\ history = <<>>
    /\ arch = FreshArchetypalState
    /\ activation_history = <<>>
    /\ archCall = [calls |-> 0, factors |-> Factors(FreshBraidState),
                   snapshots |-> <<>>]
    /\ capacity = DefaultCapacity
    /\ path = FALSE
    /\ episodes = <<>>
    /\ store \in PersistedStores
    /\ recorded = <<>>
    /\ memCall = [op |-> "init", before |-> <<>>, hadPath |-> FALSE,
                  records |-> 0, reopens |-> 0,
                  cap |-> DefaultCapacity, withPath |-> FALSE]
    /\ recursive_depth = 0
    /\ activation_level = [s \in NetworkSymbols |-> 0]
    /\ frames = <<>>
    /\ symCall = [op |-> "none", output |-> <<>>, meaning |-> "",
                  coherence |-> 0, result_depth |-> 0, entryDepth |-> 0,
                  depthAfter |-> 0, returns |-> 0]
    /\ integrated = TRUE
    /\ event_stream = <<>>
    /\ projections = <<>>
    /\ transcendences = <<>>
    /\ bridgeCall = [op |-> "none", projection |-> EmptyProjection(0),
                     transcendence |-> EmptyTranscendence(0),
                     projects |-> 0, transcends |-> 0]
    /\ FreshLater

MaxLoads == 1
MaxLoadRecords == 1

NextLoad ==
    \/ \E cap \in Capacities, hasPath \in BOOLEAN :
            memCall.reopens < MaxLoads /\ Reopen(cap, hasPath)
    \/ \E snapshot \in Snapshots :
            memCall.records < MaxLoadRecords /\ Record(snapshot)

SpecLoad == InitLoad /\ [][NextLoad]_vars

\* The symbolic engine on its own: calls may be made while calls are in
\* progress (re-entered from the iteration over the caller's symbols).
MaxReturns == 6

\* No call is in progress, or the innermost one is still iterating over its
\* input symbols, the caller's object from which a call can be re-entered.
CanCall ==
    IF frames = <<>> THEN TRUE
    ELSE frames[Len(frames)].pos < Len(frames[Len(frames)].symbols)

NextSymbolic ==
    \/ \E symbols \in SymbolLists :
            /\ symCall.returns + Len(frames) < MaxReturns
            /\ CanCall
            /\ Enter(symbols)
    \/ \E symbols \in SymbolLists :
            /\ symCall.returns + Len(frames) < MaxReturns
            /\ CanCall
            /\ SentinelCall(symbols)
    \/ ActivateNext
    \/ Return

SpecSymbolic == Init /\ [][NextSymbolic]_vars

\* The bridge on its own, as DimensionalConsciousnessBridge() (no engines
\* attached) or with the fresh engines of an orchestrator attached.
MaxEvents == 2
MaxProjections == 2
MaxTranscendences == 2

\* The window arguments: the defaults 7 and 5, and a window of 1.
ProjectionWindows == {1, 7}
TranscendenceWindows == {1, 5}

InitBridge ==
    /\ braid = FreshBraidState
    /\ history = <<>>
    /\ arch = FreshArchetypalState
    /\ activation_history = <<>>
    /\ archCall = [calls |-> 0, factors |-> Factors(FreshBraidState),
                   snapshots |-> <<>>]
    /\ capacity = DefaultCapacity
    /\ episodes = <<>>
    /\ path = FALSE
    /\ store = AbsentStore
    /\ recorded = <<>>
    /\ memCall = [op |-> "init", before |-> <<>>, hadPath |-> FALSE,
                  records |-> 0, reopens |-> 0,
                  cap |-> DefaultCapacity, withPath |-> FALSE]
    /\ recursive_depth = 0
    /\ activation_level = [s \in NetworkSymbols |-> 0]
    /\ frames = <<>>
    /\ symCall = [op |-> "none", output |-> <<>>, meaning |-> "",
                  coherence |-> 0, result_depth |-> 0, entryDepth |-> 0,
                  depthAfter |-> 0, returns |-> 0]
    /\ integrated \in BOOLEAN
    /\ event_stream = <<>>
    /\ projections = <<>>
    /\ transcendences = <<>>
    /\ bridgeCall = [op |-> "none", projection |-> EmptyProjection(0),
                     transcendence |-> EmptyTranscendence(0),
                     projects |-> 0, transcends |-> 0]
    /\ FreshLater

NextBridge ==
    \/ \E content \in Contents, emotional_context \in EmotionalContexts :
            Len(event_stream) < MaxEvents
                /\ AddExperience(content, emotional_context)
    \/ \E window_size \in ProjectionWindows :
            bridgeCall.projects < MaxProjections /\ ProjectTo4d(window_size)
    \/ \E projection_window \in TranscendenceWindows :
            bridgeCall.transcends < MaxTranscendences
                /\ TranscendTo5d(projection_window)

SpecBridge == InitBridge /\ [][NextBridge]_vars

\* The identity engine on its own: checkpoints created from system states
\* that hold objects (as the engine's own test passes), dicts (as the
\* orchestrator passes) or None, and assessments of stored checkpoints and
\* of checkpoints built by the caller.
MaxCheckpoints == 2
MaxAssessments == 1

TestBraidState ==
    [desire |-> 7000, fear |-> 2000, valence |-> 3000, tension |-> 4000,
     policy |-> "approach"]

TornBraidState ==
    [desire |-> 10000, fear |-> 10000, valence |-> -10000, tension |-> 10000,
     policy |-> "investigate"]

TestArchetypalState ==
    [serpent_activation |-> 5500, flame_activation |-> 4500,
     void_activation |-> 2000, unity_activation |-> 6000]

TestSymbolicOutput ==
    [has_coherence |-> TRUE, coherence |-> 8000, activated_nodes |-> 4]

SentinelOutput == [has_coherence |-> FALSE, activated_nodes |-> 0]

SystemStates ==
    { [braid_state |-> Object(TestBraidState),
       archetypal_state |-> Object(TestArchetypalState),
       symbolic_output |-> TestSymbolicOutput,
       consciousness_density |-> 7000, phase_coherence |-> 6500],
      [braid_state |-> DictOf(TestBraidState, DOMAIN TestBraidState),
       archetypal_state |->
           DictOf(TestArchetypalState, DOMAIN TestArchetypalState),
       symbolic_output |-> TestSymbolicOutput,
       consciousness_density |-> 7000, phase_coherence |-> 6500],
      [braid_state |-> NoneState, archetypal_state |-> NoneState,
       symbolic_output |-> SentinelOutput,
       consciousness_density |-> 5000, phase_coherence |-> 5000],
      [braid_state |-> Object(TornBraidState),
       archetypal_state |-> NoneState,
       symbolic_output |-> SentinelOutput,
       consciousness_density |-> 10000, phase_coherence |-> 0],
      [braid_state |-> Object(TornBraidState),
       archetypal_state |->
           Object([serpent_activation |-> 0, flame_activation |-> 10000,
                   void_activation |-> 0, unity_activation |-> 10000]),
       symbolic_output |-> [has_coherence |-> TRUE, coherence |-> 0,
                            activated_nodes |-> 10],
       consciousness_density |-> 0, phase_coherence |-> 10000] }

\* The overall_coherence values of the checkpoints built by the caller: on
\* and next to the two thresholds, and the ends of the range.
MadeCoherences == {0, 4999, 5000, 5001, 7499, 7500, 7501, 10000}

\* Checkpoints built by the caller: every metric at the given value, the
\* six metrics without overall_coherence, and no metric at all.
MadeCheckpoints ==
    {[checkpoint_id |-> <<"made", v>>,
      coherence_metrics |->
          [m \in DimensionMetrics \cup {"overall_coherence"} |-> v]] :
        v \in MadeCoherences}
    \cup {[checkpoint_id |-> <<"made", -1>>,
           coherence_metrics |-> [m \in DimensionMetrics |-> 9000]],
          NoCheckpoint}

NextIdentity ==
    \/ \E system_states \in SystemStates :
            /\ Len(checkpoints) < MaxCheckpoints
            /\ CreateCheckpoint(system_states, "first pass", 1)
    \/ \E i \in 1..Len(checkpoints) :
            idCall.assesses < MaxAssessments /\ AssessContinuity(checkpoints[i])
    \/ \E checkpoint \in MadeCheckpoints :
            idCall.assesses < MaxAssessments /\ AssessContinuity(checkpoint)

SpecIdentity == Init /\ [][NextIdentity]_vars

\* The qualia engine on its own, run past the window of 10 shards; two
\* readings of the clock may agree once.
MaxShards == 11

QualiaContexts ==
    { [braid_state |-> NoneState, archetypal_state |-> NoneState,
       temporal_flow |-> 8000, embodied_presence |-> 6000,
       volitional_agency |-> 0],
      [braid_state |->
           Object([desire |-> 10000, fear |-> 0, tension |-> 0,
                   action_bias |-> 10000]),
       archetypal_state |->
           Object([serpent_activation |-> 0, flame_activation |-> 10000,
                   void_activation |-> 0, unity_activation |-> 0]),
       temporal_flow |-> 0, embodied_presence |-> 0,
       volitional_agency |-> 0] }

\* No two shards carry the same timestamp.
TimestampsDistinct ==
    \A i, j \in 1..Len(cathedral_shards) :
        i # j => cathedral_shards[i].timestamp # cathedral_shards[j].timestamp

NextCathedral ==
    \E context \in QualiaContexts, tick \in {0, 1} :
        /\ Len(cathedral_shards) < MaxShards
        /\ tick = 0 => (cathedral_shards # <<>> /\ TimestampsDistinct)
        /\ CathedralProcessExperience("experience_0", context, tick)

SpecCathedral == Init /\ [][NextCathedral]_vars

\* Two orchestrators given the same process_experience calls.
MaxExperiences == 2

UnityInputs ==
    { [k \in {"goal_value", "threat_level"} |->
          IF k = "goal_value" THEN 7000 ELSE 1000],
      [k \in {"threat_level"} |-> 7500],
      [k \in {"goal_value", "threat_level"} |->
          IF k = "goal_value" THEN 10000 ELSE 7000] }

NextUnity ==
    \E content \in Contents, inputs \in UnityInputs, tick, lag \in {0, 1} :
        /\ unityCall.calls < MaxExperiences
        /\ ProcessExperience(content, inputs, tick, lag)

SpecUnity == Init /\ [][NextUnity]_vars


\* The meta-awareness engine on its own, run past its window of 5
\* reflections, from system states of three awareness levels.
MaxReflections == 6

MetaStates ==
    { [braid_state |-> DictOf(TestBraidState, DOMAIN TestBraidState),
       consciousness_density |-> 7000, phase_coherence |-> 6500],
      [braid_state |-> NoneState,
       consciousness_density |-> 5000, phase_coherence |-> 5000],
      [braid_state |-> NoneState,
       consciousness_density |-> 10000, phase_coherence |-> 10000] }

NextMeta ==
    \E system_states \in MetaStates :
        /\ Len(reflection_history) < MaxReflections
        /\ GenerateMetaReflection(system_states)

SpecMeta == Init /\ [][NextMeta]_vars

\* Two threads, each making one process_experience call on the same
\* orchestrator, with different inputs.
RaceInputs ==
    [t \in Threads |->
        IF t = 1
            THEN [k \in {"goal_value", "threat_level"} |->
                     IF k = "goal_value" THEN 7000 ELSE 1000]
            ELSE [k \in {"threat_level"} |-> 7500]]

NextRace ==
    \E t \in Threads :
        \/ BeginExperience(t, "experience_0", RaceInputs[t])
        \/ RunStage(t)

SpecRace == Init /\ [][NextRace]_vars


\* The classifier on its own, called with braid states a caller builds and
\* with states the oscillator produces from a fresh start. The built states
\* are: factors that sum to 0; flame and serpent factors both 0.5; a
\* BraidState() as constructed; void and serpent factors both 1.
MaxResonances == 3

BuiltBraidStates ==
    { [FreshBraidState EXCEPT !.valence = 10000],
      [FreshBraidState EXCEPT !.desire = 5000, !.valence = 5000],
      FreshBraidState,
      [FreshBraidState EXCEPT !.tension = 6250, !.valence = -10000] }

BraidStates ==
    BuiltBraidStates \cup {StepState(FreshBraidState, im) : im \in InputMaps}

NextResonance ==
    \E braid_state \in BraidStates :
        /\ archCall.calls < MaxResonances
        /\ ProcessBraidResonanceOf(braid_state)

SpecResonance == Init /\ [][NextResonance]_vars


----------------------------------------------------------------------------
(* Properties of the oscillator and the classifier, under SpecBraid *)

\* The oscillator state before the i-th step of the history.
StateBefore(i) == IF i = 1 THEN FreshBraidState ELSE history[i - 1].state

\* C1: after any sequence of step calls, with any input map (keys missing,
\* values below 0 or above 1), 0 <= desire <= 1 and 0 <= fear <= 1.
C1_DrivesClamped ==
    /\ 0 <= braid.desire /\ braid.desire <= SCALE
    /\ 0 <= braid.fear /\ braid.fear <= SCALE
    /\ \A i \in 1..Len(history) :
        /\ 0 <= history[i].state.desire /\ history[i].state.desire <= SCALE
        /\ 0 <= history[i].state.fear /\ history[i].state.fear <= SCALE

\* C1 witness: two steps were taken, and both limits of the clamp are met.
C1_Witness ==
    /\ Len(history) >= 2
    /\ braid.desire = SCALE
    /\ braid.fear = 0

\* C2: a hysteresis bit that is 1 before a step is 1 after it exactly when
\* the drive's new value is at or above bin_off, and 0 exactly when the new
\* value is below bin_off.
C2_BitStaysOnDownToOff ==
    \A i \in 1..Len(history) :
        LET before == StateBefore(i)
            after == history[i].state
        IN  /\ before.desire_bit = 1 =>
                (after.desire_bit = 1 <=> after.desire >= bin_off)
            /\ before.fear_bit = 1 =>
                (after.fear_bit = 1 <=> after.fear >= bin_off)

\* C2 witness: a bit that was 1 stayed 1 on a value inside the band, below
\* bin_on, and a later step took it to 0 on a value below bin_off.
C2_Witness ==
    /\ \E i \in 1..Len(history) :
        /\ StateBefore(i).desire_bit = 1
        /\ history[i].state.desire >= bin_off
        /\ history[i].state.desire < bin_on
        /\ history[i].state.desire_bit = 1
    /\ \E i \in 1..Len(history) :
        /\ StateBefore(i).desire_bit = 1
        /\ history[i].state.desire < bin_off
        /\ history[i].state.desire_bit = 0

\* C3 as stated: a bit that is 0 before a step is still 0 after a step whose
\* new value is <= bin_on, and 1 after a step whose new value is > bin_on.
C3_Original ==
    \A i \in 1..Len(history) :
        LET before == StateBefore(i)
            after == history[i].state
        IN  /\ before.desire_bit = 0 =>
                /\ after.desire <= bin_on => after.desire_bit = 0
                /\ after.desire > bin_on => after.desire_bit = 1
            /\ before.fear_bit = 0 =>
                /\ after.fear <= bin_on => after.fear_bit = 0
                /\ after.fear > bin_on => after.fear_bit = 1

\* C3 amended: a bit that is 0 before a step is 0 after a step whose new
\* value is below bin_on and 1 after a step whose new value is at or above
\* bin_on (the value bin_on itself switches the bit on); no value v with
\* bin_off <= v < bin_on changes a bit.
C3_BitStaysOffBelowOn ==
    \A i \in 1..Len(history) :
        LET before == StateBefore(i)
            after == history[i].state
        IN  /\ before.desire_bit = 0 =>
                (after.desire_bit = 1 <=> after.desire >= bin_on)
            /\ before.fear_bit = 0 =>
                (after.fear_bit = 1 <=> after.fear >= bin_on)
            /\ (bin_off <= after.desire /\ after.desire < bin_on) =>
                after.desire_bit = before.desire_bit
            /\ (bin_off <= after.fear /\ after.fear < bin_on) =>
                after.fear_bit = before.fear_bit

\* C3 witness: a bit that was 0 met the value bin_on exactly and is 1, and a
\* fear bit that was 0 met a value inside the band and is still 0.
C3_Witness ==
    /\ \E i \in 1..Len(history) :
        /\ StateBefore(i).desire_bit = 0
        /\ history[i].state.desire = bin_on
        /\ history[i].state.desire_bit = 1
    /\ \E i \in 1..Len(history) :
        /\ StateBefore(i).fear_bit = 0
        /\ history[i].state.fear >= bin_off
        /\ history[i].state.fear < bin_on
        /\ history[i].state.fear_bit = 0

ActivationSum ==
    arch.serpent_activation + arch.flame_activation + arch.void_activation
        + arch.unity_activation

ActivationsInUnitRange ==
    \A v \in {arch.serpent_activation, arch.flame_activation,
              arch.void_activation, arch.unity_activation} :
        0 <= v /\ v <= SCALE

AnyFactorNonzero ==
    \E v \in {archCall.factors.flame, archCall.factors.void,
              archCall.factors.serpent, archCall.factors.unity} : v # 0

\* C4 as stated: after every process_braid_resonance call each activation
\* is in [0,1], their sum is at most 1, and the sum is exactly 1 whenever
\* any factor of the call is nonzero.
C4_Original ==
    archCall.calls >= 1 =>
        /\ ActivationsInUnitRange
        /\ ActivationSum <= SCALE
        /\ AnyFactorNonzero => ActivationSum = SCALE

\* C4 amended: after every process_braid_resonance call each activation is
\* in [0,1], and whenever any factor of the call is nonzero their sum is 1
\* up to the rounding of the four divisions (half a unit each): it can fall
\* short of 1 or exceed 1 by at most two units of the arithmetic.
C4_ActivationsNormalised ==
    archCall.calls >= 1 =>
        /\ ActivationsInUnitRange
        /\ AnyFactorNonzero => Abs(ActivationSum - SCALE) <= 2

\* C4 witness: a call on a stepped oscillator state with all four factors
\* nonzero, whose activations are all positive.
C4_Witness ==
    /\ archCall.calls >= 1
    /\ Len(history) >= 1
    /\ archCall.factors = Factors(braid)
    /\ archCall.factors.unity > 0
    /\ arch.unity_activation > 0
    /\ arch.flame_activation > 0
    /\ arch.void_activation > 0

----------------------------------------------------------------------------
(* The classifier's bounded history, under SpecHistory *)

\* The last n entries of a sequence (all of them when it has fewer).
LastN(s, n) ==
    IF Len(s) <= n THEN s ELSE SubSeq(s, Len(s) - n + 1, Len(s))

\* C7: after any number of process_braid_resonance calls activation_history
\* holds at most 50 snapshots, and they are the snapshots of the most recent
\* calls in call order (oldest evicted first).
C7_HistoryCappedFifo ==
    /\ Len(activation_history) <= HistoryCap
    /\ Len(archCall.snapshots) = archCall.calls
    /\ activation_history = LastN(archCall.snapshots, HistoryCap)

\* C7 witness: more calls than the cap were made, the history is full, and
\* its oldest and newest snapshots differ (the oscillator moved in between).
C7_Witness ==
    /\ archCall.calls > HistoryCap
    /\ Len(activation_history) = HistoryCap
    /\ activation_history[1] # activation_history[HistoryCap]

----------------------------------------------------------------------------
(* The bounded episodic log, under SpecMemory *)

\* C5: for a MemorySystem with capacity c >= 1, after any sequence of n
\* record calls the log holds at most c records, and they are exactly the
\* min(n, c) most recently recorded records in recording order (records
\* loaded at construction count as recorded first).
C5_LogBoundedFifo ==
    capacity >= 1 =>
        /\ Len(episodes) <= capacity
        /\ Len(episodes) = Min(Len(recorded), capacity)
        /\ episodes = LastN(recorded, capacity)

\* C5 witness: record was called more often than the capacity of 2, the
\* oldest record is evicted, and the two records kept differ.
C5_Witness ==
    /\ memCall.op = "record"
    /\ capacity = 2
    /\ Len(recorded) > capacity
    /\ Len(episodes) = capacity
    /\ episodes[1] # episodes[2]
    /\ recorded[1] # episodes[1]

\* The records that json.dumps then json.loads gives back unchanged.
JsonStable(snapshot) ==
    JsonSerializable(snapshot) /\ JsonDecode(JsonEncode(snapshot)) = snapshot

\* A MemorySystem with a path that was recorded to has just been replaced by
\* a new MemorySystem on the same path.
ReopenedAfterRecords ==
    /\ memCall.op = "reopen"
    /\ memCall.hadPath
    /\ path
    /\ memCall.records >= 1

\* C6 as stated: after any sequence of record calls on a MemorySystem with
\* a path, a new MemorySystem on the same path holds the same records in
\* the same order, truncated to capacity from the tail.
C6_Original ==
    ReopenedAfterRecords => episodes = LastN(memCall.before, capacity)

\* C6 amended: after a sequence of record calls on a MemorySystem with a
\* path, a new MemorySystem on the same path holds the same records in the
\* same order, provided every record the log held is one that JSON gives
\* back unchanged (string keys, no tuples, nothing json.dumps rejects).
C6_RoundTripOfJsonRecords ==
    (/\ ReopenedAfterRecords
     /\ \A i \in 1..Len(memCall.before) : JsonStable(memCall.before[i]))
        => /\ episodes = memCall.before
           /\ capacity >= 1 => episodes = LastN(memCall.before, capacity)

\* C6 witness: a full log of two different records was written and read
\* back by a MemorySystem constructed with another capacity.
C6_Witness ==
    /\ ReopenedAfterRecords
    /\ Len(memCall.before) = 2
    /\ memCall.before[1] # memCall.before[2]
    /\ \A i \in 1..Len(memCall.before) : JsonStable(memCall.before[i])
    /\ episodes = memCall.before
    /\ memCall.records > 2

----------------------------------------------------------------------------
(* The symbolic engine's recursion guard, under SpecSymbolic *)

\* C8 as stated: recursive_depth is 0 after every return of
\* process_symbolic_pattern, including the return of the "RECURSION_LIMIT"
\* sentinel when the call is made with the guard active at depth 5.
C8_Original ==
    /\ (symCall.op = "return" /\ symCall.entryDepth = 0) =>
            symCall.depthAfter = 0
    /\ symCall.op = "sentinel" => symCall.depthAfter = 0

\* C8 amended: after every return of process_symbolic_pattern
\* recursive_depth is what it was when that call was made: 0 after the
\* return of a call made while no other call is in progress, and still 5
\* after the return of the "RECURSION_LIMIT" sentinel, which a call made with
\* the guard active at depth 5 gets and which does not touch the guard; the
\* guard counts the calls in progress, never exceeds 5, and is 0 again once
\* they have all returned.
C8_DepthRestoredOnReturn ==
    /\ symCall.op \in {"return", "sentinel"} =>
            symCall.depthAfter = symCall.entryDepth
    /\ (symCall.op = "return" /\ symCall.entryDepth = 0) =>
            symCall.depthAfter = 0
    /\ symCall.op = "sentinel" =>
            /\ symCall.output = "RECURSION_LIMIT"
            /\ symCall.depthAfter = max_recursion
    /\ recursive_depth = Len(frames)
    /\ recursive_depth <= max_recursion
    /\ frames = <<>> => recursive_depth = 0

\* The five calls in progress when the sentinel was returned have all
\* returned after it, the last of them the outermost, and the guard is back
\* at 0.
AllReturnedAfterSentinel ==
    /\ symCall.op = "return"
    /\ symCall.entryDepth = 0
    /\ symCall.returns = max_recursion + 1
    /\ frames = <<>>
    /\ recursive_depth = 0

\* C8 witness: the sentinel has just been returned to a call made with five
\* calls in progress, and the guard is still at 5.
C8_Witness ==
    /\ symCall.op = "sentinel"
    /\ symCall.entryDepth = max_recursion
    /\ recursive_depth = max_recursion

\* The pair of the most similar of the model's nodes was activated by a
\* top-level call, which returned both emergent symbols.
SymbolicSynthesisReturned ==
    /\ symCall.op = "return"
    /\ symCall.coherence = 9196
    /\ symCall.meaning = "symbolic_synthesis"
    /\ Len(symCall.output) = 4

----------------------------------------------------------------------------
(* The vectors of the dimensional bridge, under SpecBridge *)

\* project_to_4d has just returned.
ProjectReturned == bridgeCall.op = "project"

\* transcend_to_5d has just returned.
TranscendReturned == bridgeCall.op = "transcend"

\* C9 as stated: every Projection4D returned by project_to_4d, in every
\* state of the bridge, has an integration_vector of exactly 12 entries.
C9_Original ==
    ProjectReturned => Len(bridgeCall.projection.integration_vector) = 12

\* C9 amended: every Projection4D that project_to_4d returns while the event
\* stream holds at least one event, and every projection the bridge keeps,
\* has an integration_vector of exactly 12 entries; the projection returned
\* while the event stream is empty has coherence 0 and an integration_vector
\* of no entries, and is not kept.
C9_IntegrationVectorLength ==
    /\ (ProjectReturned /\ event_stream # <<>>) =>
            /\ Len(bridgeCall.projection.integration_vector) = 12
            /\ projections # <<>>
            /\ projections[Len(projections)] = bridgeCall.projection
    /\ (ProjectReturned /\ event_stream = <<>>) =>
            /\ bridgeCall.projection.integration_vector = <<>>
            /\ bridgeCall.projection.coherence = 0
            /\ bridgeCall.projection.depth = Len(projections) + 1
            /\ projections = <<>>
    /\ \A i \in 1..Len(projections) :
            Len(projections[i].integration_vector) = 12

\* C9 witness: a projection of two events with neither emotional nor
\* archetypal tags, whose seven hash words are padded with zeros to 12.
C9_Witness ==
    /\ ProjectReturned
    /\ Len(bridgeCall.projection.origin_events) = 2
    /\ \A i \in 1..2 :
            /\ bridgeCall.projection.origin_events[i].emotional_signature = <<>>
            /\ bridgeCall.projection.origin_events[i].archetypal_resonance = <<>>
    /\ Len(bridgeCall.projection.integration_vector) = 12
    /\ bridgeCall.projection.integration_vector[7] > 0
    /\ bridgeCall.projection.integration_vector[8] = 0
    /\ bridgeCall.projection.coherence < SCALE

\* The sentinel projection was returned for an empty event stream.
EmptyProjectionReturned ==
    /\ ProjectReturned
    /\ event_stream = <<>>
    /\ bridgeCall.projection.integration_vector = <<>>

\* C10 as stated: every Transcendence5D returned by transcend_to_5d, in
\* every state of the bridge, has a meta_vector of exactly 10 entries and a
\* dimensional_gradient of exactly 5 entries.
C10_Original ==
    TranscendReturned =>
        /\ Len(bridgeCall.transcendence.meta_vector) = 10
        /\ Len(bridgeCall.transcendence.dimensional_gradient) = 5

\* C10 amended: every Transcendence5D that transcend_to_5d returns while the
\* bridge keeps at least one projection, and every transcendence the bridge
\* keeps, has a meta_vector of exactly 10 entries and a dimensional_gradient
\* of exactly 5 entries; the transcendence returned while the bridge keeps no
\* projection has the invariant "void", a meta_vector and a
\* dimensional_gradient of no entries, and is not kept.
C10_MetaVectorAndGradientLength ==
    /\ (TranscendReturned /\ projections # <<>>) =>
            /\ Len(bridgeCall.transcendence.meta_vector) = 10
            /\ Len(bridgeCall.transcendence.dimensional_gradient) = 5
            /\ transcendences # <<>>
            /\ transcendences[Len(transcendences)] = bridgeCall.transcendence
    /\ (TranscendReturned /\ projections = <<>>) =>
            /\ bridgeCall.transcendence.meta_vector = <<>>
            /\ bridgeCall.transcendence.dimensional_gradient = <<>>
            /\ bridgeCall.transcendence.archetypal_invariant = "void"
            /\ bridgeCall.transcendence.transcendence_depth
                   = Len(transcendences) + 1
            /\ transcendences = <<>>
    /\ \A i \in 1..Len(transcendences) :
            /\ Len(transcendences[i].meta_vector) = 10
            /\ Len(transcendences[i].dimensional_gradient) = 5

\* C10 witness: a transcendence of two projections of different density,
\* with a gradient of two differences and three zeros and a meta vector that
\* ends in the density and the phase coherence.
C10_Witness ==
    /\ TranscendReturned
    /\ Len(bridgeCall.transcendence.origin_projections) = 2
    /\ Len(bridgeCall.transcendence.dimensional_gradient) = 5
    /\ bridgeCall.transcendence.dimensional_gradient[2] # 0
    /\ bridgeCall.transcendence.dimensional_gradient[3] = 0
    /\ Len(bridgeCall.transcendence.meta_vector) = 10
    /\ bridgeCall.transcendence.meta_vector[9]
           = bridgeCall.transcendence.consciousness_density
    /\ bridgeCall.transcendence.meta_vector[10]
           = bridgeCall.transcendence.phase_coherence

\* The sentinel transcendence was returned for a bridge without projections.
EmptyTranscendenceReturned ==
    /\ TranscendReturned
    /\ projections = <<>>
    /\ bridgeCall.transcendence.meta_vector = <<>>

\* The bridge without engines projected "Experience 0" without tags and
\* "Integration spike" tagged affect 0.2, first the newest event alone and
\* then both, and transcended the two projections.
BridgeRunReturned ==
    /\ TranscendReturned
    /\ ~integrated
    /\ Len(projections) = 2
    /\ projections[1].integration_vector
           = <<3692, 5455, 7528, 8395, 5091, 5663, 6535, 2000, 0, 0, 0, 0>>
    /\ projections[1].coherence = SCALE
    /\ projections[1].consciousness_density = 2310
    /\ projections[2].integration_vector[8] = 1111
    /\ Abs(projections[2].coherence - 9738) <= 2
    /\ Abs(bridgeCall.transcendence.consciousness_density - 8740) <= 5
    /\ bridgeCall.transcendence.archetypal_invariant = "void"
    /\ Len(bridgeCall.transcendence.origin_projections) = 2

----------------------------------------------------------------------------
(* The classifier's phase coherence and dominant pattern, under SpecBraid *)

\* C11: the classifier's phase_coherence is in [0,1] after every
\* process_braid_resonance call, and is 1.0 after the first call of a fresh
\* engine, when no prior snapshot exists.
C11_PhaseCoherenceInUnitRange ==
    /\ archCall.calls >= 1 =>
            /\ 0 <= arch.phase_coherence
            /\ arch.phase_coherence <= SCALE
    /\ archCall.calls = 1 => arch.phase_coherence = SCALE

\* C11 witness: a later call found a different previous snapshot, and the
\* phase coherence is strictly between 0 and 1.
C11_Witness ==
    /\ archCall.calls >= 2
    /\ activation_history[Len(activation_history)]
           # activation_history[Len(activation_history) - 1]
    /\ arch.phase_coherence > 0
    /\ arch.phase_coherence < SCALE

\* The four members of ArchetypalPattern.
ArchetypalPatterns == {"SERPENT", "FLAME", "VOID", "UNITY"}

\* C13: after every process_braid_resonance call on an oscillator state
\* produced by step, starting with the first call of a fresh pipeline,
\* dominant_pattern is not None and is one of the four ArchetypalPattern
\* categories.
C13_DominantPatternIsCategory ==
    archCall.calls >= 1 => arch.dominant_pattern \in ArchetypalPatterns

\* C13 witness: the first classifier call of a fresh pipeline, made on the
\* state of the first step, found no activation above one half and named
\* the largest.
C13_Witness ==
    /\ archCall.calls = 1
    /\ Len(history) = 1
    /\ history[1].state = braid
    /\ arch.dominant_pattern \in ArchetypalPatterns
    /\ \A i \in 1..4 : 2 * activation_history[1][i][2] <= SCALE

----------------------------------------------------------------------------
(* The depths of the dimensional bridge, under SpecBridge *)

\* C14: on a fresh bridge that has been fed exactly one event, project_to_4d
\* returns a projection with coherence exactly 1.0 and depth 1.
C14_SingleEventProjection ==
    (/\ ProjectReturned
     /\ Len(event_stream) = 1
     /\ Len(projections) = 1)
        => /\ bridgeCall.projection.coherence = SCALE
           /\ bridgeCall.projection.depth = 1
           /\ projections[1] = bridgeCall.projection

\* C14 witness: the bridge returned the sentinel for its empty stream, was
\* then fed one event with tags, and projected it.
C14_Witness ==
    /\ ProjectReturned
    /\ bridgeCall.projects = 2
    /\ Len(event_stream) = 1
    /\ event_stream[1].emotional_signature # <<>>
    /\ Len(projections) = 1
    /\ bridgeCall.projection.origin_events = event_stream
    /\ bridgeCall.projection.coherence = SCALE
    /\ bridgeCall.projection.depth = 1

\* C15 as stated: the Transcendence5D returned by any transcend_to_5d call
\* has a transcendence_depth equal to the number of transcendences the
\* bridge keeps after that call.
C15_Original ==
    TranscendReturned =>
        bridgeCall.transcendence.transcendence_depth = Len(transcendences)

\* C15 amended: the Transcendence5D returned by a transcend_to_5d call made
\* while the bridge keeps at least one projection has a transcendence_depth
\* equal to the number of transcendences kept after that call, and the i-th
\* transcendence kept has depth i, so the depths of the kept transcendences
\* count 1, 2, 3, ...; a call made while the bridge keeps no projection
\* returns a transcendence of depth 1 that is not kept and not counted.
C15_DepthCountsKeptTranscendences ==
    /\ (TranscendReturned /\ projections # <<>>) =>
            bridgeCall.transcendence.transcendence_depth = Len(transcendences)
    /\ (TranscendReturned /\ projections = <<>>) =>
            /\ bridgeCall.transcendence.transcendence_depth = 1
            /\ transcendences = <<>>
    /\ \A i \in 1..Len(transcendences) :
            transcendences[i].transcendence_depth = i

\* C15 witness: the second kept transcendence was returned with depth 2,
\* whatever the number of projections it compresses.
C15_Witness ==
    /\ TranscendReturned
    /\ bridgeCall.transcends = 2
    /\ Len(projections) = 1
    /\ Len(transcendences) = 2
    /\ bridgeCall.transcendence.transcendence_depth = 2
    /\ transcendences[1].transcendence_depth = 1

----------------------------------------------------------------------------
(* Loading the episodic log from a file, under SpecLoad *)

\* A MemorySystem has just been constructed, or has failed to be, over the
\* file at the path.
LoadAttempted ==
    /\ memCall.op \in {"reopen", "raised"}
    /\ memCall.withPath

\* The file is malformed: unparseable, neither a list nor a dict, or a dict
\* whose "episodes" is not a list of records.
Malformed(file) ==
    \/ file.kind \in {"corrupt", "scalar"}
    \/ /\ file.kind = "dict"
       /\ \/ file.shape # "list"
          \/ \E i \in 1..Len(file.episodes) : ~IsRecord(file.episodes[i])

\* C16 as stated: constructing a MemorySystem over any malformed persisted
\* store (unparseable content, a payload that is neither a list nor a dict,
\* or a dict whose episodes entry is not a list of records) never raises and
\* starts from an empty log.
C16_Original ==
    (LoadAttempted /\ Malformed(store)) =>
        /\ memCall.op = "reopen"
        /\ episodes = <<>>

\* What the constructor does recover from: an unparseable file, a payload
\* that is neither a list nor a dict, and a dict whose "episodes" is a string
\* give an empty log and no exception.
MalformedStoreRecovered ==
    (/\ LoadAttempted
     /\ \/ store.kind \in {"corrupt", "scalar"}
        \/ store.kind = "dict" /\ store.shape = "string")
        => /\ memCall.op = "reopen"
           /\ episodes = <<>>
           /\ capacity = memCall.cap

\* The constructor raised over a dict whose "episodes" is a number.
LoadRaised ==
    /\ memCall.op = "raised"
    /\ store = MisshapenStore("number")

\* The number of records the file holds.
StoredCount == Len(RecordsOf(store.episodes))

\* A MemorySystem was constructed with capacity c over a file that holds
\* more than c records.
LoadedOverLargerStore ==
    /\ memCall.op = "reopen"
    /\ memCall.withPath
    /\ store.kind \in {"list", "dict"}
    /\ StoredCount > memCall.cap

\* C17 as stated: when a MemorySystem is constructed with capacity c over a
\* persisted store that holds more than c records, the loaded log holds
\* exactly the last c records of the store, in their stored order.
C17_Original ==
    LoadedOverLargerStore =>
        episodes = JsonDecodeAll(LastN(RecordsOf(store.episodes), memCall.cap))

\* C17 amended: when a MemorySystem is constructed with capacity c over a
\* persisted list or dict store, the capacity in effect is the positive
\* integer "capacity" of a dict store when it has one and c otherwise; the
\* loaded log holds, in their stored order, the records among the last items
\* of the store, as many items as the capacity in effect (every item when it
\* is 0). So with c >= 1 over a store of records only, a list or a dict
\* without a capacity, that holds more than c records, the log holds exactly
\* the last c records.
C17_LoadTruncatesToCapacityInEffect ==
    (/\ memCall.op = "reopen"
     /\ memCall.withPath
     /\ store.kind \in {"list", "dict"})
        => /\ capacity = IF store.kind = "dict" /\ store.capacity > 0
                            THEN store.capacity ELSE memCall.cap
           /\ capacity >= 1 =>
                episodes = JsonDecodeAll(RecordsOf(LastN(store.episodes, capacity)))
           /\ capacity = 0 =>
                episodes = JsonDecodeAll(RecordsOf(store.episodes))
           /\ (/\ memCall.cap >= 1
               /\ store.capacity = 0
               /\ \A i \in 1..Len(store.episodes) : IsRecord(store.episodes[i])
               /\ StoredCount > memCall.cap) =>
                    /\ Len(episodes) = memCall.cap
                    /\ episodes =
                         JsonDecodeAll(LastN(store.episodes, memCall.cap))

\* C17 witness: a MemorySystem constructed with capacity 2 over a list of
\* three records holds the second and the third.
C17_Witness ==
    /\ LoadedOverLargerStore
    /\ memCall.cap = 2
    /\ store = ListStore(StoredRecords)
    /\ episodes = <<JsonDecode(StoredRecords[2]), JsonDecode(StoredRecords[3])>>

\* A MemorySystem constructed with capacity 2 over a dict that carries the
\* capacity 3 holds all three records.
StoredCapacityWon ==
    /\ LoadedOverLargerStore
    /\ memCall.cap = 2
    /\ store = DictStore(3, StoredRecords)
    /\ Len(episodes) = 3

----------------------------------------------------------------------------
(* Two orchestrators given the same calls, under SpecUnity *)

\* A process_experience call has returned on both engines.
ExperienceReturned == unityCall.calls >= 1

\* C12: two freshly constructed EMOTAUnityEngine instances given the same
\* sequence of process_experience calls (same content, same inputs) return,
\* call by call, identical motivational_state and archetypal_resonance
\* sub-records, whatever their clocks read and whatever the hash seeds of
\* their processes are.
C12_SubRecordsDeterministic ==
    ExperienceReturned =>
        /\ unityCall.result.motivational_state
              = unityCall.twin_result.motivational_state
        /\ unityCall.result.archetypal_resonance
              = unityCall.twin_result.archetypal_resonance

\* The second call has returned on both engines with equal sub-records,
\* a policy other than the initial one, and records that differ in their
\* timestamp, content hash and checkpoint id.
C12_Witness ==
    /\ unityCall.calls = 2
    /\ Len(twin.engine.history) = 2
    /\ unityCall.result.motivational_state
          = unityCall.twin_result.motivational_state
    /\ unityCall.result.archetypal_resonance
          = unityCall.twin_result.archetypal_resonance
    /\ unityCall.result.motivational_state.policy = "investigate"
    /\ unityCall.result.archetypal_resonance.dominant_pattern = "SERPENT"
    /\ unityCall.result.timestamp # unityCall.twin_result.timestamp
    /\ unityCall.result.content_hash # unityCall.twin_result.content_hash
    /\ unityCall.result.identity_continuity.checkpoint_id
          # unityCall.twin_result.identity_continuity.checkpoint_id

----------------------------------------------------------------------------
(* The continuity status, under SpecIdentity *)

\* An assess_continuity call has returned.
Assessed == idCall.op = "assess"

\* C18: assess_continuity reports continuity_status 'maintained' exactly
\* when the checkpoint's overall_coherence is >= 0.75, 'partial' exactly
\* when it is >= 0.5 and < 0.75, and 'fragmented' otherwise (a checkpoint
\* without an overall_coherence counts as 0.0).
C18_StatusFollowsThresholds ==
    Assessed =>
        LET metrics == idCall.checkpoint.coherence_metrics
            overall ==
                IF "overall_coherence" \in DOMAIN metrics
                    THEN metrics["overall_coherence"] ELSE 0
            status == idCall.assessment.continuity_status
        IN  /\ status \in {"maintained", "partial", "fragmented"}
            /\ status = "maintained" <=> overall >= 7500
            /\ status = "partial" <=> (overall >= 5000 /\ overall < 7500)
            /\ status = "fragmented" <=> overall < 5000
            /\ idCall.assessment.overall_coherence = overall

\* A checkpoint whose overall_coherence is exactly 0.75 was assessed as
\* maintained.
C18_Witness ==
    /\ Assessed
    /\ "overall_coherence" \in DOMAIN idCall.checkpoint.coherence_metrics
    /\ idCall.checkpoint.coherence_metrics["overall_coherence"] = 7500
    /\ idCall.assessment.continuity_status = "maintained"

\* A checkpoint that create_checkpoint stored was assessed as partial.
StoredCheckpointPartial ==
    /\ Assessed
    /\ \E i \in 1..Len(checkpoints) : checkpoints[i] = idCall.checkpoint
    /\ idCall.assessment.continuity_status = "partial"

\* A checkpoint whose overall_coherence is just below 0.5 was assessed as
\* fragmented, and one at exactly 0.5 as partial.
FragmentedBelowHalf ==
    /\ Assessed
    /\ idCall.checkpoint.checkpoint_id = <<"made", 4999>>
    /\ idCall.assessment.continuity_status = "fragmented"

PartialAtHalf ==
    /\ Assessed
    /\ idCall.checkpoint.checkpoint_id = <<"made", 5000>>
    /\ idCall.assessment.continuity_status = "partial"

----------------------------------------------------------------------------
(* The checkpoint signature of the orchestrator, under SpecUnity *)

\* C19: in every process_experience call the identity checkpoint's
\* signature is overwritten with that call's upstream data:
\* emotional_baseline desire_tendency, fear_response and tension_tolerance
\* equal the oscillator's desire, fear and tension of that call, and the
\* four archetypal_preferences equal the classifier's four activations of
\* that call.
C19_Original ==
    ExperienceReturned =>
        LET signature == unityCall.checkpoint.identity_signature
            braid_state == unityCall.braid_state
            archetypal_state == unityCall.archetypal_state
        IN  /\ signature.emotional_baseline["desire_tendency"]
                  = braid_state.desire
            /\ signature.emotional_baseline["fear_response"]
                  = braid_state.fear
            /\ signature.emotional_baseline["tension_tolerance"]
                  = braid_state.tension
            /\ signature.archetypal_preferences["serpent_resonance"]
                  = archetypal_state.serpent_activation
            /\ signature.archetypal_preferences["flame_attraction"]
                  = archetypal_state.flame_activation
            /\ signature.archetypal_preferences["void_comfort"]
                  = archetypal_state.void_activation
            /\ signature.archetypal_preferences["unity_seeking"]
                  = archetypal_state.unity_activation

\* What the orchestrator's checkpoints hold instead: the defaults of
\* getattr, which finds no attribute on the dict summaries, and no policy
\* nudge.
SignatureHoldsGetattrDefaults ==
    ExperienceReturned =>
        LET signature == unityCall.checkpoint.identity_signature
        IN  /\ signature.emotional_baseline =
                  [desire_tendency |-> 0, fear_response |-> 0,
                   valence_preference |-> 5000, tension_tolerance |-> 0]
            /\ signature.archetypal_preferences =
                  [serpent_resonance |-> 0, flame_attraction |-> 0,
                   void_comfort |-> 0, unity_seeking |-> 0]
            /\ signature.cognitive_patterns["analytical"]
                  = idCall.core_before.cognitive_patterns["analytical"]
            /\ signature.cognitive_patterns["intuitive"]
                  = idCall.core_before.cognitive_patterns["intuitive"]

\* A call returned with the oscillator's desire at 0.58 and the
\* checkpoint's desire_tendency at 0.
DesireNotCarried ==
    /\ ExperienceReturned
    /\ unityCall.braid_state.desire = 5800
    /\ unityCall.checkpoint.identity_signature
          .emotional_baseline["desire_tendency"] = 0

----------------------------------------------------------------------------
(* The synergy matrix of the qualia engine, under SpecCathedral *)

\* The earlier shards among the given ones whose similarity with the new
\* shard is above 0.7, as synergy keys.
SynergyKeysOver(earlier, new_shard) ==
    {SynergyKey(earlier[i], new_shard) : i \in
        {i \in 1..Len(earlier) :
            QualiaSimilarity(new_shard.qualia_signature,
                             earlier[i].qualia_signature) > 7000}}

\* C20: when process_experience adds a shard, that shard is compared with
\* the (up to) 10 shards recorded before it, and the synergy matrix gains
\* an entry for exactly those earlier shards whose mean-per-axis
\* similarity with the new shard is above 0.7.
C20_Original ==
    [][cathedral_shards' # cathedral_shards =>
        LET new_shard == cathedral_shards'[Len(cathedral_shards')]
        IN  DOMAIN synergy_matrix' \ DOMAIN synergy_matrix
                = SynergyKeysOver(TailSlice(cathedral_shards, 10), new_shard)
      ]_vars

\* What the engine does instead: the new shard is compared with itself and
\* with the (up to) 9 shards before it, and every key written holds that
\* pair's similarity.
SynergyOverLastTenWithItself ==
    [][cathedral_shards' # cathedral_shards =>
        LET new_shard == cathedral_shards'[Len(cathedral_shards')]
            written == SynergyKeysOver(TailSlice(cathedral_shards', 10), new_shard)
        IN  /\ SynergyKey(new_shard, new_shard) \in written
            /\ synergy_matrix'[SynergyKey(new_shard, new_shard)] = SCALE
            /\ DOMAIN synergy_matrix' = DOMAIN synergy_matrix \cup written
            /\ \A k \in DOMAIN synergy_matrix \ written :
                    synergy_matrix'[k] = synergy_matrix[k]
      ]_vars

\* The first call on a fresh engine left one entry, the shard's pair with
\* itself.
SelfPairRecorded ==
    /\ Len(cathedral_shards) = 1
    /\ DOMAIN synergy_matrix
          = {SynergyKey(cathedral_shards[1], cathedral_shards[1])}

\* Eleven shards of the same qualia at distinct times: the eleventh was
\* not compared with the first, the tenth shard before it.
TenthEarlierShardSkipped ==
    /\ Len(cathedral_shards) = 11
    /\ TimestampsDistinct
    /\ QualiaSimilarity(cathedral_shards[11].qualia_signature,
                        cathedral_shards[1].qualia_signature) = SCALE
    /\ SynergyKey(cathedral_shards[1], cathedral_shards[11])
          \notin DOMAIN synergy_matrix
    /\ SynergyKey(cathedral_shards[2], cathedral_shards[11])
          \in DOMAIN synergy_matrix

----------------------------------------------------------------------------
(* The self model of the meta-awareness engine, under SpecMeta *)

\* The awareness levels of the last 5 reflections.
RecentAwareness ==
    [i \in 1..Min(5, Len(reflection_history)) |->
        TailSlice(reflection_history, 5)[i].awareness_level]

\* 1 - (max - min) of the awareness levels of the last 5 reflections.
StabilityOfLastFive == SCALE - (MaxOf(RecentAwareness) - MinOf(RecentAwareness))

\* C21 as stated: from the 5th reflection onward awareness_stability is
\* 1 - (max - min) of the awareness levels of the last 5 reflections.
C21_Original ==
    Len(reflection_history) >= 5 =>
        self_model.awareness_stability = StabilityOfLastFive

\* C21: once more than 5 reflections exist (from the 6th call onward)
\* awareness_stability is 1 - (max - min) of the awareness levels of the
\* last 5 reflections; up to and including the 5th call it is 1.
C21_StabilityFromSixthReflection ==
    /\ Len(reflection_history) > 5 =>
           self_model.awareness_stability = StabilityOfLastFive
    /\ Len(reflection_history) \in 1..5 =>
           self_model.awareness_stability = SCALE

\* Six reflections whose last five differ in awareness, and the stability
\* below 1.
C21_Witness ==
    /\ Len(reflection_history) = 6
    /\ StabilityOfLastFive < SCALE
    /\ self_model.awareness_stability < SCALE

\* Five reflections of differing awareness with the stability still at 1.
FiveReflectionsStillStable ==
    /\ Len(reflection_history) = 5
    /\ StabilityOfLastFive < SCALE
    /\ self_model.awareness_stability = SCALE

----------------------------------------------------------------------------
(* The dominant pattern and the zero-sum call of the classifier, under *)
(* SpecResonance *)

\* The activation the state holds for a pattern.
ActivationOf(pattern) ==
    CASE pattern = "SERPENT" -> arch.serpent_activation
      [] pattern = "FLAME" -> arch.flame_activation
      [] pattern = "VOID" -> arch.void_activation
      [] pattern = "UNITY" -> arch.unity_activation

\* The dominant pattern holds a maximal activation.
DominantIsMaximal ==
    \A p \in ArchetypalPatterns :
        ActivationOf(p) <= ActivationOf(arch.dominant_pattern)

\* The patterns that come before the dominant one in the given order.
Before(order) ==
    {order[j] : j \in 1..((CHOOSE k \in 1..4 :
                               order[k] = arch.dominant_pattern) - 1)}

\* The order of the list `activations` of process_braid_resonance.
ListOrder == <<"FLAME", "VOID", "SERPENT", "UNITY">>

\* C22 as stated: the dominant pattern holds a maximal activation, and no
\* pattern declared before it in ArchetypalPattern (SERPENT, FLAME, VOID,
\* UNITY) holds the same activation.
C22_Original ==
    archCall.calls > 0 =>
        /\ DominantIsMaximal
        /\ \A p \in Before(DeclarationOrder) :
               ActivationOf(p) < ActivationOf(arch.dominant_pattern)

\* C22: the dominant pattern holds a maximal activation, and no pattern
\* placed before it in the list of the call (FLAME, VOID, SERPENT, UNITY)
\* holds the same activation.
C22_DominantIsFirstMaximumOfList ==
    archCall.calls > 0 =>
        /\ DominantIsMaximal
        /\ \A p \in Before(ListOrder) :
               ActivationOf(p) < ActivationOf(arch.dominant_pattern)

\* FLAME is dominant with the activation SERPENT holds too, above 0.
C22_Witness ==
    /\ archCall.calls > 0
    /\ arch.dominant_pattern = "FLAME"
    /\ arch.serpent_activation = arch.flame_activation
    /\ arch.flame_activation > 0

\* VOID is dominant with the activation SERPENT holds too.
VoidBeforeSerpent ==
    /\ archCall.calls > 0
    /\ arch.dominant_pattern = "VOID"
    /\ arch.serpent_activation = arch.void_activation

\* SERPENT is dominant alone.
SerpentAlone ==
    /\ arch.dominant_pattern = "SERPENT"
    /\ \A p \in ArchetypalPatterns \ {"SERPENT"} :
           ActivationOf(p) < arch.serpent_activation

\* The activations of the state, as a record.
StateActivations(a) ==
    [flame |-> a.flame_activation, void |-> a.void_activation,
     serpent |-> a.serpent_activation, unity |-> a.unity_activation]

\* C25: a process_braid_resonance call whose four factors sum to 0 leaves
\* the four activations as they were before the call.
C25_ZeroSumKeepsActivations ==
    [][(archCall'.calls = archCall.calls + 1 /\ archCall'.factors.total = 0)
           => StateActivations(arch') = StateActivations(arch)]_vars

\* A call whose factors sum to 0 has returned after an earlier call, and
\* the activations are not 0.
C25_Witness ==
    /\ archCall.calls > 1
    /\ archCall.factors.total = 0
    /\ arch.flame_activation + arch.void_activation
           + arch.serpent_activation + arch.unity_activation > 0
    /\ archCall.snapshots[archCall.calls]
           = archCall.snapshots[archCall.calls - 1]

----------------------------------------------------------------------------
(* The checkpoints and the baseline of the identity engine, under *)
(* SpecIdentity *)

\* create_checkpoint has returned.
Created == idCall.op = "create"

\* mean(1 - |current - base|) over the axes of a group.
GroupSimilarity(current, base) ==
    RoundDiv(SumValues([k \in DOMAIN current |->
                           SCALE - Abs(current[k] - base[k])],
                       DOMAIN current),
             Cardinality(DOMAIN current))

\* C23: the coherence metrics of the checkpoint create_checkpoint returns
\* compare its signature with the baseline as it stood before the call, the
\* checkpoint is the last one stored, and after the call every axis of the
\* six groups of the baseline is 0.9 * old + 0.1 * current.
C23_MetricsBeforeBaselineMoves ==
    Created =>
        LET checkpoint == idCall.checkpoint
            signature == checkpoint.identity_signature
            old == idCall.core_before
        IN  /\ \A g \in SignatureGroups :
                   checkpoint.coherence_metrics[MetricOf[g]]
                       = GroupSimilarity(signature[g], old[g])
            /\ checkpoints[Len(checkpoints)] = checkpoint
            /\ \A g \in SignatureGroups :
                   /\ DOMAIN core_signature[g] = IdentityDimensions[g]
                   /\ \A axis \in IdentityDimensions[g] :
                          core_signature[g][axis]
                              = Mul(old[g][axis], 9000)
                                  + Mul(signature[g][axis], 1000)

\* A second checkpoint was created over a baseline that had moved, its
\* signature differs from that baseline, and the baseline moved again.
C23_Witness ==
    /\ Created
    /\ idCall.creates = 2
    /\ idCall.core_before # InitializeSignature
    /\ idCall.checkpoint.identity_signature # idCall.core_before
    /\ core_signature # idCall.core_before
    /\ idCall.checkpoint.coherence_metrics["overall_coherence"] < SCALE

\* C28: a create_checkpoint call, with the baseline update it performs,
\* changes neither the identity_signature nor the coherence_metrics of a
\* checkpoint stored before it.
C28_StoredCheckpointsUnchanged ==
    [][\A i \in 1..Len(checkpoints) :
          /\ checkpoints'[i].identity_signature
                 = checkpoints[i].identity_signature
          /\ checkpoints'[i].coherence_metrics
                 = checkpoints[i].coherence_metrics]_vars

\* Two checkpoints are stored, the baseline has moved since the first was
\* stored, and the first still holds the signature it was stored with, which
\* is none of the baselines.
C28_Witness ==
    /\ Len(checkpoints) = 2
    /\ idCall.op = "create"
    /\ core_signature # idCall.core_before
    /\ checkpoints[1].identity_signature
           = ExtractSignature(InitializeSignature, checkpoints[1].system_states)
    /\ checkpoints[1].identity_signature
           \notin {InitializeSignature, idCall.core_before, core_signature}

----------------------------------------------------------------------------
(* The policy of the oscillator, under SpecBraid *)

PolicySeen(p) == \E i \in 1..Len(history) : history[i].state.policy = p

AvoidAndPauseSeen ==
    PolicySeen("pause") /\ PolicySeen("avoid") /\ PolicySeen("approach")

----------------------------------------------------------------------------
(* The activation levels of the symbolic engine, under SpecSymbolic *)

\* Every activation level is in [0, 1].
LevelsInUnitRange ==
    \A s \in NetworkSymbols :
        0 <= activation_level[s] /\ activation_level[s] <= SCALE

\* The innermost call in progress has handled one more of its symbols.
Handled ==
    /\ Len(frames') = Len(frames)
    /\ frames # <<>>
    /\ frames'[Len(frames)].pos = frames[Len(frames)].pos + 1

\* The symbol the innermost call in progress handles next.
NextSymbol == frames[Len(frames)].symbols[frames[Len(frames)].pos + 1]

\* C26: every activation level stays in [0, 1] and never decreases; a call
\* that passes the guard raises the level of a node by 0.3, capped at 1.0,
\* once for each occurrence of its glyph in the input and leaves the other
\* levels as they are, and the sentinel call leaves every level as it is.
C26_ActivationRaisedAndCapped ==
    /\ []LevelsInUnitRange
    /\ [][/\ \A s \in NetworkSymbols :
                 activation_level'[s] >= activation_level[s]
          /\ Handled =>
                 \A s \in NetworkSymbols :
                     activation_level'[s] =
                         IF s = NextSymbol
                             THEN (IF activation_level[s] + 3000 > SCALE
                                     THEN SCALE
                                     ELSE activation_level[s] + 3000)
                             ELSE activation_level[s]
          /\ ~Handled => activation_level' = activation_level]_vars

\* A call has returned with a node at the cap, reached from 0.9, and another
\* node raised once, and a node never named still at 0.
C26_Witness ==
    /\ symCall.op = "return"
    /\ activation_level["coherence_signal"] = SCALE
    /\ activation_level["serpent_stillness"] = 3000
    /\ activation_level["iris_integration"] = 0

\* The sentinel was returned with a node raised before it.
SentinelAfterActivation ==
    /\ symCall.op = "sentinel"
    /\ \E s \in NetworkSymbols : activation_level[s] > 0

----------------------------------------------------------------------------
(* The counters of the orchestrator's engines, under SpecUnity *)

\* The numbers of entries the engines hold in the lists that grow by one
\* with every call.
ListLengths ==
    {Len(history), Len(event_stream), Len(projections), Len(transcendences),
     Len(cathedral_shards), Len(reflection_history), Len(checkpoints)}

\* C29: after the k-th process_experience call on a fresh orchestrator the
\* returned record has 4d_depth k and 5d_transcendence_depth k, and the
\* engines hold k history entries, events, projections, transcendences,
\* shards, reflections and checkpoints.
C29_CountersInLockstep ==
    /\ ListLengths = {unityCall.calls}
    /\ ExperienceReturned =>
           /\ unityCall.result.dimensional_consciousness.depth_4d
                  = unityCall.calls
           /\ unityCall.result.dimensional_consciousness.transcendence_depth_5d
                  = unityCall.calls

\* The second call has returned with both depths at 2.
C29_Witness ==
    /\ unityCall.calls = 2
    /\ unityCall.result.dimensional_consciousness.depth_4d = 2
    /\ unityCall.result.dimensional_consciousness.transcendence_depth_5d = 2
    /\ Len(checkpoints) = 2
    /\ Len(history) = 2

----------------------------------------------------------------------------
(* The archetypal invariant of the orchestrator's transcendences, under *)
(* SpecUnity *)

\* The averaged tag values of the projections a transcendence was built
\* from, as a dict.
AveragedTags(t) ==
    AverageTags([i \in 1..Len(t.origin_projections) |->
                    t.origin_projections[i].archetypal_signature])

\* The spread of the averaged tag values of a transcendence.
TagSpread(t) ==
    MaxOf(DictValues(AveragedTags(t))) - MinOf(DictValues(AveragedTags(t)))

\* C30: every transcendence of the pipeline has an archetypal invariant
\* among serpent, flame and void; its four averaged tag values have mean
\* 0.25 (their sum is 1 up to the rounding of each), the unity tag is not
\* above all others, and the reality generation potential is density times
\* phase coherence with no 1.5 multiplier; the returned record carries the
\* invariant of the call's transcendence.
C30_InvariantNeverUnity ==
    /\ \A i \in 1..Len(transcendences) :
          LET t == transcendences[i]
              averages == AveragedTags(t)
              values == DictValues(averages)
          IN  /\ t.archetypal_invariant \in {"serpent", "flame", "void"}
              /\ Len(values) = 4
              /\ Abs(SumSeq(values) - SCALE) <= 4
              /\ RoundDiv(SumSeq(values), 4) <= 4000
              /\ \E k \in {"serpent", "flame", "void"} :
                     DictGet(averages, k, 0) >= DictGet(averages, "unity", 0)
              /\ t.reality_generation_potential
                     = Mul(t.consciousness_density, t.phase_coherence)
    /\ ExperienceReturned =>
           unityCall.result.dimensional_consciousness.archetypal_invariant_5d
               = transcendences[Len(transcendences)].archetypal_invariant

\* A call has returned whose averaged tags are spread by less than 0.3, with
\* a unity tag above 0, and whose invariant is void.
C30_Witness ==
    /\ ExperienceReturned
    /\ TagSpread(transcendences[Len(transcendences)]) < 3000
    /\ DictGet(AveragedTags(transcendences[Len(transcendences)]), "unity", 0) > 0
    /\ unityCall.result.dimensional_consciousness.archetypal_invariant_5d
           = "void"

\* The two calls have returned the invariants flame and void.
FlameAndVoidInvariants ==
    /\ Len(transcendences) = 2
    /\ {transcendences[1].archetypal_invariant,
        transcendences[2].archetypal_invariant} = {"flame", "void"}

\* A call has returned the invariant serpent.
SerpentInvariant ==
    /\ ExperienceReturned
    /\ unityCall.result.dimensional_consciousness.archetypal_invariant_5d
           = "serpent"

----------------------------------------------------------------------------
(* Two interleaved process_experience calls, under SpecRace *)

\* The call of thread t has built its record.
RecordBuilt(t) == threads[t].pc > 13

\* The call of thread t has returned.
CallReturned(t) == threads[t].pc > LastStage

\* The four values of an oscillator state that a record and an event carry.
Carried(state) ==
    [k \in {"desire", "fear", "valence", "tension"} |-> state[k]]

\* The four values in the motivational_state of the record of thread t.
RecordCarries(t) == Carried(threads[t].locals.experience_result.motivational_state)

\* The four values among the tags of the event the call of thread t added.
EventCarries(t) ==
    [k \in {"desire", "fear", "valence", "tension"} |->
        DictGet(event_stream[threads[t].own_event].emotional_signature, k, 0)]

\* C27: the calls of two threads share the oscillator's state object. The
\* motivational_state of a call's record holds the values of the step that
\* ran last before the record was built, and the tags of its event those of
\* the step that ran last before the event was added, whichever call ran
\* that step; the witness is a returned record that holds the values of the
\* other call's step.
C27_RecordHoldsLatestStep ==
    \A t \in Threads :
        /\ threads[t].pc > 3 =>
               EventCarries(t) = Carried(history[threads[t].steps_at_event].state)
        /\ RecordBuilt(t) =>
               RecordCarries(t)
                   = Carried(history[threads[t].steps_at_result].state)

\* A call has returned a record whose motivational_state holds the values
\* written by the other call's step and not those of its own.
C27_Witness ==
    \E t \in Threads :
        /\ CallReturned(t)
        /\ threads[t].steps_at_result # threads[t].own_step
        /\ RecordCarries(t) # Carried(history[threads[t].own_step].state)
        /\ \E o \in Threads \ {t} :
               /\ threads[o].pc > 1
               /\ RecordCarries(t) = Carried(history[threads[o].own_step].state)

\* A call has added an event whose tags hold the values written by the
\* other call's step and not those of its own.
EventHoldsOtherStep ==
    \E t \in Threads :
        /\ CallReturned(t)
        /\ EventCarries(t) # Carried(history[threads[t].own_step].state)
        /\ \E o \in Threads \ {t} :
               /\ threads[o].pc > 1
               /\ EventCarries(t) = Carried(history[threads[o].own_step].state)

\* Both calls have returned records with the same motivational_state, that
\* of the step that ran second.
BothRecordsHoldOneStep ==
    /\ \A t \in Threads : CallReturned(t)
    /\ RecordCarries(1) = RecordCarries(2)

\* Every returned record holds the values of its own call's step.
RecordsHoldOwnStep ==
    \A t \in Threads :
        RecordBuilt(t) =>
            RecordCarries(t) = Carried(history[threads[t].own_step].state)

====
